---------------------------- MODULE Spec2Model ----------------------------
(***************************************************************************)
(* Model of the legacy-alerting -> unified-alerting migration of Grafana   *)
(* (package migration): the receiver/route builder of channel.go, the      *)
(* alert rule translator of alert_rule.go, the orchestrator of             *)
(* migration.go and the migration service exercised by service_test.go.    *)
(*                                                                         *)
(* Strings are sequences of one-character strings, so that sanitisation,   *)
(* truncation, concatenation and sorting are computed as the code does.    *)
(***************************************************************************)
EXTENDS Integers, Sequences, FiniteSets, TLC

VARIABLES
    alert_notification, \* the legacy alert_notification table (rows in id order)
    dashAlerts,         \* the legacy dashboard alerts translated so far, in order
    rulesPerOrg,        \* the rules built from the legacy alerts, with their channel references
    titleDeduplicatorForFolder, \* per org and folder, the titles given to rules so far
    generated,          \* number of calls of util.GenerateShortUID so far
    amConfigPerOrg,     \* the result of setupAlertmanagerConfigs: org -> configuration
    alert_rule,         \* the rows handed to InsertAlertRules
    pc,                 \* position of the migration run
    alertTable,         \* the legacy alert table the migration service reads
    dashboard,          \* the dashboard table: the dashboards and folders that exist
    dashboardsBefore,   \* the dashboard table before the first run of the service
    ua,                 \* the other unified alerting tables
    orgState,           \* the migration state recorded for every org
    migrated,           \* the migrated flag of every org and of anyOrg
    exec,               \* the run of Exec: its folder caches and the error it returned
    translated,         \* the last call of a translating function and what it returned
    uids,               \* seenUIDs of the run (a uidSet) and the calls of generateUid
    silences            \* the silences the run has added for its rules

vars == <<alert_notification, dashAlerts, rulesPerOrg, titleDeduplicatorForFolder, generated,
          amConfigPerOrg, alert_rule, pc,
          alertTable, dashboard, dashboardsBefore, ua, orgState, migrated,
          exec, translated, uids, silences>>

-----------------------------------------------------------------------------
(* Bounds of the model *)

MaxChannels == 2
MaxAlerts == 3

\* store.AlertDefinitionMaxTitleLength (190 in the store), scaled down together with
\* the length of a short uid (two characters here).
AlertDefinitionMaxTitleLength == 5

OrgIDs == {1, 2}

-----------------------------------------------------------------------------
(* Strings *)

\* The characters the model uses, in byte order (sort.Strings compares bytes).
ByteOrder ==
    << " ", "\"", ",", "-", "0", "1", "2", "3", "4", "5", "6", "7", "8", "9", "_",
       "a", "b", "c", "d", "e", "f", "g", "h", "i", "j", "k", "l", "m",
       "n", "o", "p", "q", "r", "s", "t", "u", "v", "w", "x", "y", "z" >>

ByteOf(c) == CHOOSE i \in 1..Len(ByteOrder) : ByteOrder[i] = c

\* s < t in Go's string order.
RECURSIVE StringLess(_, _)
StringLess(s, t) ==
    IF t = <<>> THEN FALSE
    ELSE IF s = <<>> THEN TRUE
    ELSE IF Head(s) = Head(t) THEN StringLess(Tail(s), Tail(t))
    ELSE ByteOf(Head(s)) < ByteOf(Head(t))

\* sort.Strings over a set of distinct strings.
RECURSIVE SortStrings(_)
SortStrings(S) ==
    IF S = {} THEN <<>>
    ELSE LET m == CHOOSE x \in S : \A y \in S \ {x} : StringLess(x, y)
         IN  <<m>> \o SortStrings(S \ {m})

\* strings.Join
RECURSIVE Join(_, _)
Join(strs, sep) ==
    IF strs = <<>> THEN <<>>
    ELSE IF Len(strs) = 1 THEN strs[1]
    ELSE strs[1] \o sep \o Join(Tail(strs), sep)

\* strings.ReplaceAll(s, old, new) for one-character old and new.
ReplaceAll(s, old, new) == [i \in 1..Len(s) |-> IF s[i] = old THEN new ELSE s[i]]

\* strings.ToLower
UpperCase == << "A", "B", "C", "D", "E", "F", "G", "H", "I", "J", "K", "L", "M",
                "N", "O", "P", "Q", "R", "S", "T", "U", "V", "W", "X", "Y", "Z" >>
LowerCase == << "a", "b", "c", "d", "e", "f", "g", "h", "i", "j", "k", "l", "m",
                "n", "o", "p", "q", "r", "s", "t", "u", "v", "w", "x", "y", "z" >>

ToLowerChar(c) ==
    IF \E i \in 1..Len(UpperCase) : UpperCase[i] = c
    THEN LowerCase[CHOOSE i \in 1..Len(UpperCase) : UpperCase[i] = c]
    ELSE c

ToLower(uid) == [i \in 1..Len(uid) |-> ToLowerChar(uid[i])]

\* strconv.Itoa and fmt's %d and %v of a number that is not negative.
RECURSIVE Itoa(_)
Itoa(n) ==
    IF n < 10 THEN <<ByteOrder[5 + n]>>
    ELSE Itoa(n \div 10) \o <<ByteOrder[5 + (n % 10)]>>

EmptyString == <<>>

MapPut(map, key, value) == [k \in DOMAIN map \cup {key} |-> IF k = key THEN value ELSE map[k]]

-----------------------------------------------------------------------------
(* Errors *)

NoError == [isError |-> FALSE]

\* MigrationError of migration.go, and any other error.
MigrationError(alertId, err) ==
    [isError |-> TRUE, isMigrationError |-> TRUE, AlertId |-> alertId, Err |-> err]
PlainError(err) == [isError |-> TRUE, isMigrationError |-> FALSE, Err |-> err]

\* fmt.Errorf("<msg>: %w", err)
Wrap(msg, err) == PlainError(msg \o ": " \o err.Err)

-----------------------------------------------------------------------------
(* util.GenerateShortUID and the uidSet of migration.go *)

\* util.GenerateShortUID returns a value it has not returned before: its k-th call
\* returns ShortUID(k). The values are two characters long.
ShortUID(k) == <<"x">> \o Itoa(k)

\* The number of attempts of generateUid.
generateUidAttempts == 5

\* What the calls of util.GenerateShortUID after the k-th return, in order.
NextShortUIDs(k) == [i \in 1..(2 * generateUidAttempts) |-> ShortUID(k + i)]

\* What is left of the values util.GenerateShortUID returns after n calls.
Drop(gens, n) == SubSeq(gens, n + 1, Len(gens))

containsCaseSensitive(s, uid) == uid \in s.set

contains(s, uid) ==
    LET dedup == IF s.caseInsensitive THEN ToLower(uid) ELSE uid
    IN  dedup \in s.set

add(s, uid) ==
    LET dedup == IF s.caseInsensitive THEN ToLower(uid) ELSE uid
    IN  [s EXCEPT !.set = s.set \cup {dedup}]

\* The loop of generateUid from attempt i on; gens[i + 1] is what attempt i gets from
\* util.GenerateShortUID.
RECURSIVE generateUidLoop(_, _, _)
generateUidLoop(s, gens, i) ==
    IF i < generateUidAttempts
    THEN LET gen == gens[i + 1]
         IN  IF ~contains(s, gen)
             THEN [s |-> add(s, gen), uid |-> gen, err |-> FALSE, attempts |-> i + 1]
             ELSE generateUidLoop(s, gens, i + 1)
    ELSE [s |-> s, uid |-> EmptyString, err |-> TRUE, attempts |-> i]

\* generateUid: the uid, the uidSet after the call and the number of calls of
\* util.GenerateShortUID it made; gens is what these calls return.
generateUid(s, gens) == generateUidLoop(s, gens, 0)

-----------------------------------------------------------------------------
(* The settings of a channel (migrateSettingsToSecureSettings of channel.go) *)

\* secureKeysToMigrate: the keys of the settings of a channel type that are secure.
secureKeysToMigrate(chanType) ==
    CASE chanType = "slack" -> <<"url", "token">>
      [] chanType = "pagerduty" -> <<"integrationKey">>
      [] chanType = "webhook" -> <<"password">>
      [] chanType = "prometheus-alertmanager" -> <<"basicAuthPassword">>
      [] chanType = "opsgenie" -> <<"apiKey">>
      [] chanType = "telegram" -> <<"bottoken">>
      [] chanType = "line" -> <<"token">>
      [] chanType = "pushover" -> <<"apiToken", "userKey">>
      [] chanType = "threema" -> <<"api_secret">>
      [] OTHER -> <<>>

\* The values of a settings object: strings and values that are no strings.
JsonString(s) == [kind |-> "string", s |-> s]
JsonNumber(n) == [kind |-> "number", s |-> n]

\* simplejson: Get(k).MustString() is the string under k, and the empty string when
\* there is no value under k or the value is no string.
MustString(json, k) ==
    IF k \in DOMAIN json /\ json[k].kind = "string" THEN json[k].s ELSE ""

\* The encryption service and base64.StdEncoding.EncodeToString, the decryption of
\* a value of SecureJsonData, and the JSON encoding of a settings object.
Encrypt(value) == <<"encrypted", value>>
EncodeToString(data) == <<"base64", data>>
MarshalJSON(settings) == <<"json", settings>>
Decrypt(secureSettings) == [k \in DOMAIN secureSettings |-> secureSettings[k][2]]

\* The body of the loop over the keys that does not look at the secure settings.
migrateKeyOverwriting(st, k) ==
    LET sv == MustString(st.cloneSettings, k)
    IN  IF sv # ""
        THEN [st EXCEPT !.newSecureSettings = MapPut(@, k, sv),
                        !.cloneSettings = [j \in DOMAIN @ \ {k} |-> @[j]]]
        ELSE st

\* The body of the loop over the keys of migrateSettingsToSecureSettings.
migrateKey(st, k) ==
    IF k \in DOMAIN st.newSecureSettings /\ st.newSecureSettings[k] # ""
    THEN st
    ELSE LET sv == MustString(st.cloneSettings, k)
         IN  IF sv # ""
             THEN [st EXCEPT !.newSecureSettings = MapPut(@, k, sv),
                             !.cloneSettings = [j \in DOMAIN @ \ {k} |-> @[j]]]
             ELSE st

RECURSIVE migrateKeys(_, _)
migrateKeys(st, keys) ==
    IF keys = <<>> THEN st ELSE migrateKeys(migrateKey(st, Head(keys)), Tail(keys))

\* encryptSecureSettings: every value is replaced by its encoded encryption.
encryptSecureSettings(secureSettings) ==
    [k \in DOMAIN secureSettings |-> EncodeToString(Encrypt(secureSettings[k]))]

\* migrateSettingsToSecureSettings: the settings and secure settings it returns, and
\* the settings object of the channel after the call. The encryption service works
\* or returns an error.
migrateSettingsToSecureSettings(chanType, settings, secureSettings, encrypts) ==
    LET keys == secureKeysToMigrate(chanType)
        st == migrateKeys([settings |-> settings,
                           cloneSettings |-> [k \in DOMAIN settings |-> settings[k]],
                           newSecureSettings |-> Decrypt(secureSettings)], keys)
    IN  IF ~encrypts /\ DOMAIN st.newSecureSettings # {}
        THEN [err |-> TRUE, channelSettings |-> st.settings]
        ELSE [err |-> FALSE, channelSettings |-> st.settings,
              settings |-> st.cloneSettings,
              secureSettings |-> encryptSecureSettings(st.newSecureSettings)]

-----------------------------------------------------------------------------
(* Legacy notification channels *)

NameQuote == <<"a", "\"", "b">>         \* a"b
NameUnder == <<"a", "_", "b">>          \* a_b
defaultReceiverName ==
    << "a", "u", "t", "o", "g", "e", "n", "-", "c", "o", "n", "t", "a", "c", "t", "-",
       "p", "o", "i", "n", "t", "-", "d", "e", "f", "a", "u", "l", "t" >>

ChannelNames == {NameQuote, NameUnder, defaultReceiverName}

ChannelTypes == {"email", "hipchat"}

\* The uid column of row id: a value unique to the row.
UidOf(id) == <<"u">> \o Itoa(id)

\* fmt.Sprintf("%.3x", md5.Sum([]byte(name))): the first three bytes of the MD5
\* digest in hexadecimal, tabulated for the names of the model.
Md5Hex3(name) ==
    CASE name = NameQuote -> <<"c", "8", "f", "8", "8", "e">>
      [] name = NameUnder -> <<"d", "b", "f", "0", "8", "e">>
      [] name = defaultReceiverName -> <<"5", "d", "b", "b", "e", "f">>

sendReminderValues == {FALSE}
frequencyValues == {0}

\* The settings of a channel that has no secret: the addresses of an email channel.
AddressSettings == [k \in {"addresses"} |-> JsonString("a")]
NoSecureSettings == [k \in {} |-> Encrypt("")]

\* A row of alert_notification with id `id`, with settings without a secret.
AlertNotification(id, org, uid, name, type, isDefault, sendReminder, frequency) ==
    [ID |-> id, OrgID |-> org, UID |-> uid, Name |-> name, Type |-> type,
     DisableResolveMessage |-> FALSE, IsDefault |-> isDefault,
     Settings |-> AddressSettings, SecureSettings |-> NoSecureSettings,
     SendReminder |-> sendReminder, Frequency |-> frequency]

\* uidOrID: a reference to a channel by its uid or by its id.
ByUID(uid) == [kind |-> "uid", uid |-> uid, id |-> 0]
ByID(id) == [kind |-> "id", uid |-> EmptyString, id |-> id]

ObsoleteUid == <<"g", "o", "n", "e">>

\* The references a legacy alert may hold: any row by id, the first row by uid, and
\* the uid of a channel that no longer exists.
uidOrIDs == {ByID(k) : k \in 1..MaxChannels} \cup {ByUID(UidOf(1)), ByUID(ObsoleteUid)}

ContactLabel == <<"_", "_", "c", "o", "n", "t", "a", "c", "t", "s", "_", "_">>

DisabledRepeatInterval == 8736

-----------------------------------------------------------------------------
(* channel.go *)

\* getNotificationChannelMap with the channels of the discontinued types kept.
getNotificationChannelMapKeepingAllTypes(table) ==
    LET kept(o) == SelectSeq(table, LAMBDA c : c.OrgID = o)
        dflt(o) == SelectSeq(kept(o), LAMBDA c : c.IsDefault)
        orgs == {table[i].OrgID : i \in 1..Len(table)}
    IN  [allChannelsMap |-> [o \in orgs |-> kept(o)],
         defaultChannelsMap |-> [o \in {x \in orgs : dflt(x) # <<>>} |-> dflt(o)]]

\* getNotificationChannelMap: the channels of every org that has any, without the
\* discontinued types, and those of them that are default.
DiscontinuedTypes == {"hipchat", "sensu"}

getNotificationChannelMap(table) ==
    LET kept(o) == SelectSeq(table, LAMBDA c : c.OrgID = o /\ c.Type \notin DiscontinuedTypes)
        dflt(o) == SelectSeq(kept(o), LAMBDA c : c.IsDefault)
        orgs == {o \in OrgIDs : kept(o) # <<>>}
    IN  [allChannelsMap |-> [o \in orgs |-> kept(o)],
         defaultChannelsMap |-> [o \in {x \in orgs : dflt(x) # <<>>} |-> dflt(o)]]

\* determineChannelUid: the uid of the notifier of channel c, seenUIDs afterwards and
\* the number of calls of util.GenerateShortUID; gens is what these calls return.
determineChannelUid(c, s, gens) ==
    LET legacyUid == c.UID
    IN  IF legacyUid = EmptyString
        THEN generateUid(s, gens)
        ELSE IF contains(s, legacyUid)
        THEN generateUid(s, gens)
        ELSE [s |-> s, uid |-> legacyUid, err |-> FALSE, attempts |-> 0]

\* createNotifier: the notifier of channel c, or the error of determineChannelUid or
\* of migrateSettingsToSecureSettings; seenUIDs afterwards and the number of calls
\* of util.GenerateShortUID.
createNotifier(c, s, gens, encrypts) ==
    LET notifierOf(uid, transcoded) ==
            IF uid.err
            THEN [err |-> PlainError("failed to generate UID"), s |-> uid.s,
                  calls |-> uid.attempts]
            ELSE IF transcoded.err
            THEN [err |-> PlainError("failed to encrypt secure settings"),
                  s |-> uid.s, calls |-> uid.attempts]
            ELSE [err |-> NoError, s |-> uid.s, calls |-> uid.attempts,
                  notifier |-> [UID |-> uid.uid,
                                Name |-> c.Name,
                                Type |-> c.Type,
                                DisableResolveMessage |-> c.DisableResolveMessage,
                                Settings |-> MarshalJSON(transcoded.settings),
                                SecureSettings |-> transcoded.secureSettings]]
    IN  notifierOf(determineChannelUid(c, s, gens),
                   migrateSettingsToSecureSettings(c.Type, c.Settings, c.SecureSettings,
                                                   encrypts))

quote(s) == <<"\"">> \o s \o <<"\"">>

\* contactListToString: the quoted names, sorted, joined by commas.
contactListToString(m) == Join(SortStrings({quote(k) : k \in m}), <<",">>)

\* The name createReceivers gives the receiver of channel c when `set` holds the
\* names already given.
SanitizedName(c, set) ==
    LET sanitizedName == ReplaceAll(c.Name, "\"", "_")
    IN  IF sanitizedName \in set
        THEN sanitizedName \o <<"_">> \o Md5Hex3(c.Name)
        ELSE sanitizedName

\* The loop of createReceivers over the channels that are left; calls counts the calls
\* of util.GenerateShortUID so far.
RECURSIVE createReceiversLoop(_, _, _, _, _, _, _)
createReceiversLoop(allChannels, set, receivers, s, gens, calls, encrypts) ==
    IF allChannels = <<>>
    THEN [err |-> NoError, receivers |-> receivers, s |-> s, calls |-> calls]
    ELSE LET c == Head(allChannels)
             sanitizedName == SanitizedName(c, set)
             appended(made) ==
                 IF made.err.isError
                 THEN [err |-> made.err, receivers |-> <<>>, s |-> made.s,
                       calls |-> calls + made.calls]
                 ELSE LET notifier == [made.notifier EXCEPT !.Name = sanitizedName]
                          cr == [channel |-> c,
                                 receiver |-> [Name |-> sanitizedName,
                                               GrafanaManagedReceivers |-> <<notifier>>]]
                      IN  createReceiversLoop(Tail(allChannels), set \cup {sanitizedName},
                                              Append(receivers, cr), made.s,
                                              Drop(gens, made.calls), calls + made.calls,
                                              encrypts)
         IN  appended(createNotifier(c, s, gens, encrypts))

\* createReceivers: one channelReceiver per channel, in order, or the error of
\* createNotifier.
createReceivers(allChannels, s, gens, encrypts) ==
    createReceiversLoop(allChannels, {}, <<>>, s, gens, 0, encrypts)

\* receiversMap of createReceivers: the keys it holds, and the receiver under a key
\* (a later channel overwrites an earlier one under the same key).
ReceiverKeys(receivers) ==
    {ByUID(receivers[i].channel.UID) : i \in {j \in 1..Len(receivers) : receivers[j].channel.UID # EmptyString}}
        \cup {ByID(receivers[i].channel.ID) : i \in {j \in 1..Len(receivers) : receivers[j].channel.ID # 0}}

ReceiverAt(receivers, key) ==
    LET hits == {i \in 1..Len(receivers) :
                    \/ key.kind = "uid" /\ receivers[i].channel.UID # EmptyString
                                        /\ receivers[i].channel.UID = key.uid
                    \/ key.kind = "id" /\ receivers[i].channel.ID # 0
                                       /\ receivers[i].channel.ID = key.id}
        last == CHOOSE i \in hits : \A j \in hits : j <= i
    IN  receivers[last].receiver

\* The default channels' frequencies with reminders on, below the disabled interval.
RECURSIVE LowestReminder(_, _)
LowestReminder(defaultChannels, repeatInterval) ==
    IF defaultChannels = <<>> THEN repeatInterval
    ELSE LET c == Head(defaultChannels)
         IN  LowestReminder(Tail(defaultChannels),
                            IF c.SendReminder /\ c.Frequency < repeatInterval
                            THEN c.Frequency ELSE repeatInterval)

\* The loop of createDefaultRouteAndReceiver over several default channels: a notifier
\* of its own for each.
RECURSIVE defaultNotifiers(_, _, _, _, _, _)
defaultNotifiers(defaultChannels, notifiers, s, gens, calls, encrypts) ==
    IF defaultChannels = <<>>
    THEN [err |-> NoError, notifiers |-> notifiers, s |-> s, calls |-> calls]
    ELSE LET appended(made) ==
                 IF made.err.isError
                 THEN [err |-> made.err, notifiers |-> <<>>, s |-> made.s,
                       calls |-> calls + made.calls]
                 ELSE defaultNotifiers(Tail(defaultChannels),
                                       Append(notifiers, made.notifier),
                                       made.s, Drop(gens, made.calls), calls + made.calls,
                                       encrypts)
         IN  appended(createNotifier(Head(defaultChannels), s, gens, encrypts))

\* createDefaultRouteAndReceiver: the root route and, as a sequence of at most one
\* receiver, the receiver created for it (empty when the function returns nil), or
\* the error of createNotifier.
createDefaultRouteAndReceiver(defaultChannels, s, gens, encrypts) ==
    LET defaultRoute == [Receiver |-> defaultReceiverName, Routes |-> <<>>,
                         ObjectMatchers |-> <<>>, Continue |-> FALSE,
                         RepeatInterval |-> <<>>]
        newDefaultReceiver == [Name |-> defaultReceiverName, GrafanaManagedReceivers |-> <<>>]
        ofSeveral(made) ==
            IF made.err.isError
            THEN [err |-> made.err, receiver |-> <<>>, route |-> defaultRoute,
                  s |-> made.s, calls |-> made.calls]
            ELSE [err |-> NoError,
                  receiver |-> << [newDefaultReceiver EXCEPT
                                      !.GrafanaManagedReceivers = made.notifiers] >>,
                  route |-> [defaultRoute EXCEPT !.RepeatInterval =
                                 <<LowestReminder(defaultChannels, DisabledRepeatInterval)>>],
                  s |-> made.s, calls |-> made.calls]
    IN  IF Len(defaultChannels) = 0
        THEN [err |-> NoError, receiver |-> <<newDefaultReceiver>>, route |-> defaultRoute,
              s |-> s, calls |-> 0]
        ELSE IF Len(defaultChannels) > 1
        THEN ofSeveral(defaultNotifiers(defaultChannels, <<>>, s, gens, 0, encrypts))
        ELSE [err |-> NoError, receiver |-> <<>>,
              route |-> [defaultRoute EXCEPT
                            !.Receiver = defaultChannels[1].Name,
                            !.RepeatInterval =
                                << IF defaultChannels[1].SendReminder
                                   THEN defaultChannels[1].Frequency
                                   ELSE DisabledRepeatInterval >>],
              s |-> s, calls |-> 0]

\* regexp.QuoteMeta: a backslash before every regular expression metacharacter.
RegexpMeta == {"\\", ".", "+", "*", "?", "(", ")", "|", "[", "]", "{", "}", "^", "$"}

RECURSIVE QuoteMeta(_)
QuoteMeta(s) ==
    IF s = <<>> THEN <<>>
    ELSE (IF Head(s) \in RegexpMeta THEN <<"\\", Head(s)>> ELSE <<Head(s)>>) \o QuoteMeta(Tail(s))

\* createRoute: the route of one contact point, matching on ContactLabel. The
\* expression is quoted, so that the matcher is always made.
createRoute(cr) ==
    [Receiver |-> cr.receiver.Name,
     Routes |-> <<>>,
     ObjectMatchers |-> << [Type |-> "=~", Name |-> ContactLabel,
                            Value |-> <<".", "*">> \o QuoteMeta(quote(cr.receiver.Name)) \o <<".", "*">>] >>,
     Continue |-> TRUE,
     RepeatInterval |-> << IF cr.channel.SendReminder THEN cr.channel.Frequency
                           ELSE DisabledRepeatInterval >>]

\* filterReceiversForAlert that hands an alert without references the default receivers.
filterReceiversForAlertDefaultingToDefaults(channelIDs, receivers, defaultReceivers) ==
    IF channelIDs = {} THEN defaultReceivers
    ELSE LET filteredReceiverNames ==
                 {ReceiverAt(receivers, k).Name : k \in channelIDs \cap ReceiverKeys(receivers)}
             coveredByDefault == \A n \in filteredReceiverNames : n \in defaultReceivers
         IN  IF filteredReceiverNames = {} \/ coveredByDefault THEN {}
             ELSE filteredReceiverNames \cup defaultReceivers

\* filterReceiversForAlert: the receiver names of the contact label of a rule; the
\* empty set stands for nil (the rule uses the root route).
filterReceiversForAlert(channelIDs, receivers, defaultReceivers) ==
    IF channelIDs = {} THEN {}
    ELSE LET filteredReceiverNames ==
                 {ReceiverAt(receivers, k).Name : k \in channelIDs \cap ReceiverKeys(receivers)}
             coveredByDefault == \A n \in filteredReceiverNames : n \in defaultReceivers
         IN  IF filteredReceiverNames = {} \/ coveredByDefault THEN {}
             ELSE filteredReceiverNames \cup defaultReceivers

\* The set of default receivers setupAlertmanagerConfigs hands to filterReceiversForAlert.
defaultReceiversOf(defaultChannels) == {defaultChannels[i].Name : i \in 1..Len(defaultChannels)}

\* The loop of setupAlertmanagerConfigs over the rules of the org: a rule with
\* receivers of its own gets the contact label.
withContactLabel(ar, receivers, defaultReceivers) ==
    LET filteredReceiverNames ==
            filterReceiversForAlert(ar.channelUids, receivers, defaultReceivers)
    IN  IF filteredReceiverNames # {}
        THEN [ar EXCEPT !.Labels = (ContactLabel :> contactListToString(filteredReceiverNames)) @@ @]
        ELSE ar

\* validateAlertmanagerConfig: BuildReceiverConfiguration is called for every notifier
\* of every receiver; it rejects the notifiers of the types of `rejected`.
validateAlertmanagerConfig(config, rejected) ==
    IF \E i \in 1..Len(config.Receivers) :
          \E k \in 1..Len(config.Receivers[i].GrafanaManagedReceivers) :
              config.Receivers[i].GrafanaManagedReceivers[k].Type \in rejected
    THEN PlainError("failed to build receiver configuration")
    ELSE NoError

NoLabels == [l \in {} |-> EmptyString]
NoConfigs == [o \in {} |-> [Receivers |-> <<>>, Route |-> <<>>]]

InOrg(orgID) == " in orgId " \o ToString(orgID)

\* The body of the loop of setupAlertmanagerConfigs for the channels of one org: the
\* configuration of the org (Route is a sequence of at most one route; empty: nil),
\* the rules with the contact labels of the rules of the org, seenUIDs afterwards and
\* the number of calls of util.GenerateShortUID, or the error the function returns.
\* rules are the rules of all orgs.
orgAlertmanagerConfig(orgID, channels, defaultChannels, rules, s, gens, encrypts, rejected) ==
    LET labelled(receivers) ==
            [i \in 1..Len(rules) |->
                IF rules[i].OrgID = orgID
                THEN withContactLabel(rules[i], receivers, defaultReceiversOf(defaultChannels))
                ELSE rules[i]]
        validated(made, dflt, amConfig, invalid) ==
            IF invalid.isError
            THEN [err |-> Wrap("failed to validate AlertmanagerConfig" \o InOrg(orgID), invalid),
                  rules |-> labelled(made.receivers), s |-> dflt.s,
                  calls |-> made.calls + dflt.calls]
            ELSE [err |-> NoError, amConfig |-> amConfig,
                  rules |-> labelled(made.receivers), s |-> dflt.s,
                  calls |-> made.calls + dflt.calls]
        routed(made, dflt, amConfig) ==
            IF dflt.err.isError
            THEN [err |-> Wrap("failed to create default route & receiver" \o InOrg(orgID),
                               dflt.err),
                  rules |-> rules, s |-> dflt.s, calls |-> made.calls + dflt.calls]
            ELSE validated(made, dflt, amConfig, validateAlertmanagerConfig(amConfig, rejected))
        received(made, dflt) ==
            IF made.err.isError
            THEN [err |-> Wrap("failed to create receiver" \o InOrg(orgID), made.err),
                  rules |-> rules, s |-> made.s, calls |-> made.calls]
            ELSE IF Len(made.receivers) = 0
            THEN [err |-> NoError, amConfig |-> [Receivers |-> <<>>, Route |-> <<>>],
                  rules |-> rules, s |-> made.s, calls |-> made.calls]
            ELSE routed(made, dflt,
                        [Receivers |-> [i \in 1..Len(made.receivers) |->
                                           made.receivers[i].receiver] \o dflt.receiver,
                         Route |-> << [dflt.route EXCEPT !.Routes =
                                          [i \in 1..Len(made.receivers) |->
                                              createRoute(made.receivers[i])]] >>])
        created(made) ==
            received(made, createDefaultRouteAndReceiver(defaultChannels, made.s,
                                                         Drop(gens, made.calls), encrypts))
    IN  created(createReceivers(channels, s, gens, encrypts))

\* The loop of setupAlertmanagerConfigs over the orgs with channels, in the order
\* `order` in which the map is ranged over: the state after it, or after the error
\* that ends it. st holds the configurations, the rules, seenUIDs and the number of
\* calls of util.GenerateShortUID.
RECURSIVE setupAlertmanagerConfigsLoop(_, _, _, _, _, _)
setupAlertmanagerConfigsLoop(order, maps, st, gens, encrypts, rejected) ==
    IF order = <<>> THEN st
    ELSE LET orgID == Head(order)
             configured(res) ==
                 LET after == [st EXCEPT !.rules = res.rules, !.s = res.s,
                                         !.calls = @ + res.calls]
                 IN  IF res.err.isError
                     THEN [after EXCEPT !.err = res.err, !.amConfigPerOrg = NoConfigs]
                     ELSE setupAlertmanagerConfigsLoop(Tail(order), maps,
                              [after EXCEPT !.amConfigPerOrg = MapPut(@, orgID, res.amConfig)],
                              gens, encrypts, rejected)
         IN  configured(orgAlertmanagerConfig(orgID, maps.allChannelsMap[orgID],
                            IF orgID \in DOMAIN maps.defaultChannelsMap
                            THEN maps.defaultChannelsMap[orgID] ELSE <<>>,
                            st.rules, st.s, Drop(gens, st.calls), encrypts, rejected))

\* The orders in which a map with the keys of `keys` can be ranged over.
OrdersOf(keys) ==
    {order \in [1..Cardinality(keys) -> keys] :
        \A i, j \in 1..Cardinality(keys) : i # j => order[i] # order[j]}

\* setupAlertmanagerConfigs: the configurations, the rules with their contact labels,
\* seenUIDs and the number of calls of util.GenerateShortUID after it, and the error
\* it returns. The channels are loaded or the query fails.
setupAlertmanagerConfigs(table, loads, order, rules, s, gens, encrypts, rejected) ==
    IF ~loads
    THEN [err |-> Wrap("failed to load notification channels", PlainError("Find")),
          amConfigPerOrg |-> NoConfigs, rules |-> rules, s |-> s, calls |-> 0]
    ELSE setupAlertmanagerConfigsLoop(order, getNotificationChannelMap(table),
             [err |-> NoError, amConfigPerOrg |-> NoConfigs, rules |-> rules, s |-> s,
              calls |-> 0],
             gens, encrypts, rejected)

-----------------------------------------------------------------------------
(* alert_rule.go: the states, the queries, the references and the labels of the
   rule of a legacy alert *)

MaxQueries == 2

\* The no-data setting of a legacy alert, and the state of the rule made from it.
transNoDataDefaultingToAlerting(s) ==
    CASE s = "ok" -> "OK"
      [] s \in {"", "no_data"} -> "NoData"
      [] s = "alerting" -> "Alerting"
      [] s = "keep_state" -> "NoData"
      [] OTHER -> "Alerting"

transNoData(s) ==
    CASE s = "ok" -> "OK"
      [] s \in {"", "no_data"} -> "NoData"
      [] s = "alerting" -> "Alerting"
      [] s = "keep_state" -> "NoData"
      [] OTHER -> "NoData"

\* The execution-error setting of a legacy alert, and the state of the rule made from it.
transExecErrDefaultingToAlerting(s) ==
    CASE s \in {"", "alerting"} -> "Alerting"
      [] s = "keep_state" -> "Error"
      [] s = "ok" -> "OK"
      [] OTHER -> "Alerting"

transExecErr(s) ==
    CASE s \in {"", "alerting"} -> "Alerting"
      [] s = "keep_state" -> "Error"
      [] s = "ok" -> "OK"
      [] OTHER -> "Error"

\* ruleAdjustInterval
ruleAdjustInterval(freq) ==
    LET baseFreq == 10
    IN  IF freq <= baseFreq THEN 10 ELSE freq - (freq % baseFreq)

\* The silences of a run: each is kept with its org and with the uid of the rule it
\* matches. addErrorSilence and addNoDataSilence add a silence for the rule ar to the
\* silences, or return an error and add none.
addErrorSilence(sil, ar, fails) ==
    IF fails THEN [err |-> PlainError("addErrorSilence"), silences |-> sil]
    ELSE [err |-> NoError,
          silences |-> Append(sil, [Comment |-> "Error", OrgID |-> ar.OrgID, rule |-> ar.UID])]

addNoDataSilence(sil, ar, fails) ==
    IF fails THEN [err |-> PlainError("addNoDataSilence"), silences |-> sil]
    ELSE [err |-> NoError,
          silences |-> Append(sil, [Comment |-> "NoData", OrgID |-> ar.OrgID, rule |-> ar.UID])]

\* The silences after the rule ar of an alert with these settings was built, and the
\* errors that were logged: a silence is asked for when the legacy setting is
\* "keep_state", and an error of its creation is logged and nothing else. `failing`
\* are the calls that return an error.
addSilences(sil, ar, settings, failing) ==
    LET forError == IF settings.ExecutionErrorState = "keep_state"
                    THEN addErrorSilence(sil, ar, "addErrorSilence" \in failing)
                    ELSE [err |-> NoError, silences |-> sil]
        forNoData == IF settings.NoDataState = "keep_state"
                     THEN addNoDataSilence(forError.silences, ar, "addNoDataSilence" \in failing)
                     ELSE [err |-> NoError, silences |-> forError.silences]
    IN  [silences |-> forNoData.silences,
         logged |-> (IF forError.err.isError
                     THEN {"failed to create silence for Error"} ELSE {})
                    \cup (IF forNoData.err.isError
                          THEN {"failed to create silence for NoData"} ELSE {})]

\* The creations of silences that fail when the calls made for an alert have this
\* outcome.
FailingSilences(outcome) ==
    CASE outcome = "addErrorSilence" -> {"addErrorSilence"}
      [] outcome = "addNoDataSilence" -> {"addNoDataSilence"}
      [] outcome = "addSilences" -> {"addErrorSilence", "addNoDataSilence"}
      [] OTHER -> {}

\* The outcomes in which the creation of a silence fails, for an alert with these
\* settings: a creation that is not asked for cannot fail.
SilenceOutcomes(settings) ==
    {outcome \in {"addErrorSilence", "addNoDataSilence", "addSilences"} :
        /\ "addErrorSilence" \in FailingSilences(outcome) =>
              settings.ExecutionErrorState = "keep_state"
        /\ "addNoDataSilence" \in FailingSilences(outcome) =>
              settings.NoDataState = "keep_state"}

\* getLabelForSilenceMatching: the label a silence matches its rule by.
getLabelForSilenceMatching(ruleUID) ==
    [n |-> <<"r", "u", "l", "e", "_", "u", "i", "d">>, v |-> ruleUID]

\* The values of the two settings in the legacy alerts: the documented ones, the
\* absent one and two that the legacy models do not know.
NoDataOptions == {"", "ok", "no_data", "alerting", "keep_state", "keep_last_state", "unknown"}
ExecutionErrorOptions == {"", "ok", "alerting", "keep_state", "keep_last_state", "unknown"}

expressionDatasourceUID == "__expr__"

Absent == "absent"

\* A query model is raw JSON: an object, kept as the function from its keys to their
\* raw values, or a value that is no object.
JsonObject(fields) ==
    [isObject |-> TRUE, fields |-> [k \in {x \in DOMAIN fields : fields[x] # Absent} |-> fields[k]]]
JsonArray == [isObject |-> FALSE, fields |-> <<>>]

\* json.Unmarshal of a query model into a map, and json.Marshal of the map.
UnmarshalModel(model) == [err |-> ~model.isObject, fixedData |-> model.fields]
MarshalModel(fixedData) == [isObject |-> TRUE, fields |-> fixedData]

Delete(queryData, key) == [k \in DOMAIN queryData \ {key} |-> queryData[k]]

Put(queryData, key, raw) ==
    [k \in DOMAIN queryData \cup {key} |-> IF k = key THEN raw ELSE queryData[k]]

\* json.Unmarshal of a raw value into a bool that holds old: null leaves the bool
\* alone, and what is neither a boolean nor null is an error.
UnmarshalBool(raw, old) ==
    CASE raw = "true" -> [err |-> FALSE, value |-> TRUE]
      [] raw = "false" -> [err |-> FALSE, value |-> FALSE]
      [] raw = "null" -> [err |-> FALSE, value |-> old]
      [] OTHER -> [err |-> TRUE, value |-> old]

\* json.Unmarshal of a raw datasource into struct{Type string}: an object gives its
\* type (empty without one), anything else but null is an error.
UnmarshalDatasource(raw) ==
    CASE raw = "{\"type\":\"prometheus\"}" -> [err |-> FALSE, Type |-> "prometheus"]
      [] raw = "{\"type\":\"something\"}" -> [err |-> FALSE, Type |-> "something"]
      [] raw = "{\"uid\":\"x\"}" -> [err |-> FALSE, Type |-> ""]
      [] raw = "null" -> [err |-> FALSE, Type |-> ""]
      [] OTHER -> [err |-> TRUE, Type |-> ""]

isPrometheusQuery(queryData) ==
    IF "datasource" \notin DOMAIN queryData
    THEN [isPrometheus |-> FALSE, err |-> TRUE]
    ELSE LET datasource == UnmarshalDatasource(queryData["datasource"])
         IN  IF datasource.err \/ datasource.Type = ""
             THEN [isPrometheus |-> FALSE, err |-> TRUE]
             ELSE [isPrometheus |-> datasource.Type = "prometheus", err |-> FALSE]

fixGraphiteReferencedSubQueriesKeepingTargetFull(queryData) ==
    IF "targetFull" \in DOMAIN queryData
    THEN Put(queryData, "target", queryData["targetFull"])
    ELSE queryData

fixGraphiteReferencedSubQueries(queryData) ==
    IF "targetFull" \in DOMAIN queryData
    THEN Put(Delete(queryData, "targetFull"), "target", queryData["targetFull"])
    ELSE queryData

fixPrometheusBothTypeQueryOfAnyDatasource(queryData) ==
    LET instant == IF "instant" \in DOMAIN queryData
                   THEN UnmarshalBool(queryData["instant"], FALSE)
                   ELSE [err |-> FALSE, value |-> FALSE]
        rng == IF "range" \in DOMAIN queryData
               THEN UnmarshalBool(queryData["range"], FALSE)
               ELSE [err |-> FALSE, value |-> FALSE]
    IN  IF instant.err \/ rng.err \/ ~instant.value \/ ~rng.value
        THEN queryData
        ELSE Put(queryData, "instant", "false")

fixPrometheusBothTypeQuery(queryData) ==
    LET instant == IF "instant" \in DOMAIN queryData
                   THEN UnmarshalBool(queryData["instant"], FALSE)
                   ELSE [err |-> FALSE, value |-> FALSE]
        rng == IF "range" \in DOMAIN queryData
               THEN UnmarshalBool(queryData["range"], FALSE)
               ELSE [err |-> FALSE, value |-> FALSE]
        isPrometheus == isPrometheusQuery(queryData)
    IN  CASE instant.err -> queryData
          [] rng.err -> queryData
          [] ~instant.value \/ ~rng.value -> queryData
          [] isPrometheus.err -> queryData
          [] ~isPrometheus.isPrometheus -> queryData
          [] OTHER -> Put(queryData, "instant", "false")

\* The loop of migrateAlertRuleQueries over the queries that are left.
RECURSIVE migrateAlertRuleQueriesLoop(_, _)
migrateAlertRuleQueriesLoop(data, result) ==
    IF data = <<>> THEN [err |-> NoError, result |-> result]
    ELSE LET d == Head(data)
             parsed == UnmarshalModel(d.Model)
             fixedData == fixPrometheusBothTypeQuery(
                              fixGraphiteReferencedSubQueries(Delete(parsed.fixedData, "hide")))
         IN  IF d.DatasourceUID = expressionDatasourceUID
             THEN migrateAlertRuleQueriesLoop(Tail(data), Append(result, d))
             ELSE IF parsed.err
             THEN [err |-> PlainError("json: cannot unmarshal"), result |-> <<>>]
             ELSE migrateAlertRuleQueriesLoop(Tail(data),
                      Append(result, [d EXCEPT !.Model = MarshalModel(fixedData)]))

\* migrateAlertRuleQueries: the queries rewritten, in order, or the error of a model
\* that is no object.
migrateAlertRuleQueries(data) == migrateAlertRuleQueriesLoop(data, <<>>)

\* The query models of the legacy alerts: Graphite queries with or without a full
\* target and a hidden flag, and queries with the instant and range flags of a
\* Prometheus query, of a datasource that is Prometheus, something else or unknown.
RawBooleans == {Absent, "true", "false", "\"x\""}
RawDatasources == {Absent, "{\"type\":\"prometheus\"}", "{\"type\":\"something\"}", "{\"uid\":\"x\"}"}

GraphiteModels ==
    {JsonObject([hide |-> hide, targetFull |-> targetFull, target |-> target]) :
        hide \in {Absent, "true"}, targetFull \in {Absent, "\"full\""},
        target \in {Absent, "\"half\""}}

PrometheusModels ==
    {JsonObject([datasource |-> datasource, instant |-> instant, range |-> range]) :
        datasource \in RawDatasources, instant \in RawBooleans,
        range \in {Absent, "true", "false"}}

BothModels ==
    {JsonObject([hide |-> "true", targetFull |-> "\"full\"", target |-> "\"half\"",
                 datasource |-> datasource, instant |-> "true", range |-> "true"]) :
        datasource \in {"{\"type\":\"prometheus\"}", "{\"type\":\"something\"}"}}

AlertQueries ==
    {[RefID |-> "A", DatasourceUID |-> "ds", Model |-> model] :
        model \in GraphiteModels \cup PrometheusModels \cup BothModels \cup {JsonArray}}
    \cup {[RefID |-> "B", DatasourceUID |-> expressionDatasourceUID, Model |-> model] :
            model \in BothModels \cup {JsonArray}}

QueriesOfLength(n) == [1..n -> AlertQueries]

\* What transConditions returns for the settings of a legacy alert: the condition and
\* its queries.
Condition(data) == [Condition |-> "A", Data |-> data]
NoQueries == Condition(<<>>)

\* ContactLabelTemplate with c in the place of %s.
ContactLabelOf(c) == <<"_", "_", "c", "o", "n", "t", "a", "c", "t", "s", "_">> \o c \o <<"_", "_">>

\* migmodels.UseLegacyChannelsLabel: a label name of its own.
UseLegacyChannelsLabel ==
    << "_", "_", "l", "e", "g", "a", "c", "y", "_", "u", "s", "e", "_",
       "c", "h", "a", "n", "n", "e", "l", "s", "_", "_" >>

True == <<"t", "r", "u", "e">>

\* An entry of the notifications of the settings of a legacy alert: the uid or the
\* id of a channel.
Notification(uid, id) == [UID |-> uid, ID |-> id]

\* The tags of the settings of a legacy alert: a JSON object of keys and values, or
\* a value that is no object. GetTagsFromSettings gives the tags of an object only.
Tags(fields) == [isObject |-> TRUE, fields |-> fields]
NoTags == [isObject |-> FALSE, fields |-> [l \in {} |-> EmptyString]]

GetTagsFromSettings(alert) ==
    IF alert.Settings.AlertRuleTags.isObject THEN alert.Settings.AlertRuleTags.fields
    ELSE [l \in {} |-> EmptyString]

\* MigrateTmpl for the messages of the model: a variable of the legacy template
\* becomes a value of the merged labels.
MigrateTmpl(message) ==
    IF message = "Instance ${instance} is down"
    THEN "{{- $mergedLabels := mergeLabelValues $values -}}\nInstance {{$mergedLabels.instance}} is down"
    ELSE message

\* GetAlertNotificationUidWithId of the migration store: the uid of the channel
\* with this id in the org, or an error and no uid when there is none.
GetAlertNotificationUidWithId(table, orgID, id) ==
    LET rows == {i \in 1..Len(table) : table[i].OrgID = orgID /\ table[i].ID = id}
    IN  IF rows = {} THEN [uid |-> EmptyString, err |-> TRUE]
        ELSE [uid |-> table[CHOOSE i \in rows : TRUE].UID, err |-> FALSE]

\* extractChannelUIDs: the uids of the references of a legacy alert, in order. The
\* error of a lookup is logged and what the lookup returned is appended.
RECURSIVE extractChannelUIDs(_, _, _)
extractChannelUIDs(table, orgID, notifications) ==
    IF notifications = <<>> THEN <<>>
    ELSE LET ui == Head(notifications)
             rest == extractChannelUIDs(table, orgID, Tail(notifications))
         IN  IF ui.ID > 0
             THEN <<GetAlertNotificationUidWithId(table, orgID, ui.ID).uid>> \o rest
             ELSE IF ui.UID # EmptyString THEN <<ui.UID>> \o rest
             ELSE rest

\* extractChannelIDs of migration.go: the references of a legacy alert as the keys of
\* the map of receivers, the uid of an entry if it has one and its id otherwise.
extractChannelIDs(da) ==
    LET notifications == da.Settings.Notifications
    IN  {ByUID(notifications[i].UID) :
            i \in {j \in 1..Len(notifications) : notifications[j].UID # EmptyString}}
        \cup {ByID(notifications[i].ID) :
                i \in {j \in 1..Len(notifications) :
                          notifications[j].UID = EmptyString /\ notifications[j].ID > 0}}

\* The annotations that point back to the dashboard, the panel and the alert.
migrationAnnotations(alert, dashboardUID) ==
    [k \in {"__dashboardUid__", "__panelId__", "__alertId__"} |->
        CASE k = "__dashboardUid__" -> dashboardUID
          [] k = "__panelId__" -> ToString(alert.PanelID)
          [] OTHER -> ToString(alert.ID)]

\* addLabelsAndAnnotations: the tags of the alert, the label of the legacy routing
\* and one label for every channel; the annotations with the migrated message.
addLabelsAndAnnotations(alert, dashboardUID, channels) ==
    LET tags == GetTagsFromSettings(alert)
        names == DOMAIN tags \cup {UseLegacyChannelsLabel}
                     \cup {ContactLabelOf(channels[i]) : i \in 1..Len(channels)}
    IN  [lbls |-> [l \in names |->
                      IF l = UseLegacyChannelsLabel
                         \/ \E i \in 1..Len(channels) : l = ContactLabelOf(channels[i])
                      THEN True ELSE tags[l]],
         annotations |-> MapPut(migrationAnnotations(alert, dashboardUID), "message",
                                MigrateTmpl(alert.Message))]

\* addMigrationInfo of migration.go: the tags of the alert and the annotations.
addMigrationInfo(da, dashboardUID) ==
    [lbls |-> GetTagsFromSettings(da), annotations |-> migrationAnnotations(da, dashboardUID)]

-----------------------------------------------------------------------------
(* alert_rule.go: the translation of one legacy alert *)

\* The settings of a legacy alert as they are parsed into dashAlertSettings.
Settings(noDataState, executionErrorState, notifications, alertRuleTags) ==
    [NoDataState |-> noDataState, ExecutionErrorState |-> executionErrorState,
     Notifications |-> notifications, AlertRuleTags |-> alertRuleTags]

NoSettings == Settings("", "", <<>>, NoTags)

\* A row of the legacy alert table.
LegacyAlert(id, org, dashboardID, panelID, name, settings) ==
    [ID |-> id, OrgID |-> org, DashboardID |-> dashboardID, PanelID |-> panelID,
     Name |-> name, Message |-> "", State |-> "", Frequency |-> 0, For |-> 0,
     Settings |-> settings]

\* truncateRuleName that keeps the whole name.
truncateRuleNameKeepingTheName(daName) == daName

\* truncateRuleName
truncateRuleName(daName) ==
    IF Len(daName) > AlertDefinitionMaxTitleLength
    THEN SubSeq(daName, 1, AlertDefinitionMaxTitleLength)
    ELSE daName

\* The title deduplicator of a folder: contains, deduplicate and add. deduplicate
\* takes the name alone (alert_rule.go line 123) and appends an underscore and a
\* short uid of its own, after cutting the name so that the result fits the maximum
\* title length (alert_rule_test.go lines 181-185).
dedupSetContains(dedupSet, name) == name \in dedupSet

dedupSetDeduplicate(name, uid) ==
    LET room == AlertDefinitionMaxTitleLength - 1 - Len(uid)
        base == IF Len(name) > room THEN SubSeq(name, 1, room) ELSE name
    IN  base \o <<"_">> \o uid

dedupSetAdd(dedupSet, name) == dedupSet \cup {name}

\* om.AlertTitleDeduplicator(folderUID): the deduplicator of the folder, made when it
\* is asked for first.
AlertTitleDeduplicator(dedups, folderUID) ==
    IF folderUID \in DOMAIN dedups THEN dedups[folderUID] ELSE {}

NoTitles == [o \in OrgIDs |-> <<>>]

\* The title of migrateAlert that does not consult the deduplicator of the folder.
alertTitleWithoutDeduplication(daName, dedupSet, gens) ==
    LET name == truncateRuleName(daName)
    IN  [name |-> name, dedupSet |-> dedupSetAdd(dedupSet, name), calls |-> 0]

\* The title migrateAlert gives the rule of an alert named daName (lines 119-127),
\* the deduplicator of the folder afterwards and the number of calls of
\* util.GenerateShortUID.
alertTitle(daName, dedupSet, gens) ==
    LET name == truncateRuleName(daName)
        renamed == dedupSetContains(dedupSet, name)
        dedupedName == dedupSetDeduplicate(name, gens[1])
        title == IF renamed THEN dedupedName ELSE name
    IN  [name |-> title, dedupSet |-> dedupSetAdd(dedupSet, title),
         calls |-> IF renamed THEN 1 ELSE 0]

\* migrateAlert: the rule built from `alert` of the dashboard of `info`, the
\* deduplicator of the folder, the silences and the number of calls of
\* util.GenerateShortUID after it, or the error it returns. cond is what
\* transConditions returns for the settings; outcome names the call that fails, if
\* one does; table is the table of the channels.
migrateAlert(alert, info, cond, dedupSet, gens, table, sil, outcome) ==
    LET parsedSettings == alert.Settings
        channels == extractChannelUIDs(table, alert.OrgID, parsedSettings.Notifications)
        la == addLabelsAndAnnotations(alert, info.DashboardUID, channels)
        queries == migrateAlertRuleQueries(cond.Data)
        isPaused == alert.State = "paused"
        title == alertTitle(alert.Name, dedupSet, gens)
        uid == Drop(gens, title.calls)[1]
        silence == getLabelForSilenceMatching(uid)
        ar == [OrgID |-> alert.OrgID,
               Title |-> title.name,
               UID |-> uid,
               Condition |-> cond.Condition,
               Data |-> queries.result,
               IntervalSeconds |-> ruleAdjustInterval(alert.Frequency),
               Version |-> 1,
               NamespaceUID |-> info.NewFolderUID,
               DashboardUID |-> info.DashboardUID,
               PanelID |-> alert.PanelID,
               RuleGroup |-> info.DashboardName \o <<" ", "-", " ">> \o Itoa(alert.PanelID),
               For |-> alert.For,
               Annotations |-> la.annotations,
               Labels |-> MapPut(la.lbls, silence.n, silence.v),
               RuleGroupIndex |-> 1,
               IsPaused |-> isPaused,
               NoDataState |-> transNoData(parsedSettings.NoDataState),
               ExecErrState |-> transExecErr(parsedSettings.ExecutionErrorState)]
        added == addSilences(sil, ar, parsedSettings, FailingSilences(outcome))
        failed(err) == [err |-> err, dedupSet |-> dedupSet, calls |-> 0, silences |-> sil,
                        logged |-> {}]
    IN  CASE outcome = "Marshal" -> failed(Wrap("get settings", PlainError("json.Marshal")))
          [] outcome = "Unmarshal" -> failed(Wrap("parse settings", PlainError("json.Unmarshal")))
          [] outcome = "transConditions" ->
               failed(Wrap("transform conditions", PlainError("transConditions")))
          [] queries.err.isError -> failed(Wrap("queries", queries.err))
          [] OTHER -> [err |-> NoError, ar |-> ar, dedupSet |-> title.dedupSet,
                       calls |-> title.calls + 1, silences |-> added.silences,
                       logged |-> added.logged]

\* What can happen to the calls migrateAlert makes for an alert with these settings:
\* all succeed, one of those it makes before it builds the rule fails, or the
\* creation of a silence it asks for fails.
MigrateOutcomes(settings) ==
    {"ok", "Marshal", "Unmarshal", "transConditions"} \cup SilenceOutcomes(settings)

-----------------------------------------------------------------------------
(* migration.go: the rule Exec makes of a legacy alert, and insertRules *)

\* normalizeRuleName: a name longer than the maximum title length is cut so that an
\* underscore and the uid of the rule fit after it.
normalizeRuleName(daName, uid) ==
    IF Len(daName) > AlertDefinitionMaxTitleLength
    THEN SubSeq(daName, 1, AlertDefinitionMaxTitleLength - 1 - Len(uid)) \o <<"_">> \o uid
    ELSE daName

\* makeAlertRule: the rule Exec builds from the legacy alert da of the dashboard
\* dashboardUID for the folder folderUID, seenUIDs, the silences and the number of
\* calls of util.GenerateShortUID after it, or the error it returns. The uid of the
\* rule is generated by seenUIDs. The title of the rule is also its group.
makeAlertRule(cond, da, dashboardUID, folderUID, seenUIDs, gens, sil, outcome) ==
    LET info == addMigrationInfo(da, dashboardUID)
        queries == migrateAlertRuleQueries(cond.Data)
        generatedUid == generateUid(seenUIDs, gens)
        uid == generatedUid.uid
        name == normalizeRuleName(da.Name, uid)
        silence == getLabelForSilenceMatching(uid)
        ar == [OrgID |-> da.OrgID,
               Title |-> name,
               UID |-> uid,
               Condition |-> cond.Condition,
               Data |-> queries.result,
               IntervalSeconds |-> ruleAdjustInterval(da.Frequency),
               Version |-> 1,
               NamespaceUID |-> folderUID,
               DashboardUID |-> dashboardUID,
               PanelID |-> da.PanelID,
               RuleGroup |-> name,
               For |-> da.For,
               Annotations |-> MapPut(info.annotations, "message", MigrateTmpl(da.Message)),
               Labels |-> MapPut(info.lbls, silence.n, silence.v),
               RuleGroupIndex |-> 1,
               IsPaused |-> da.State = "paused",
               NoDataState |-> transNoData(da.Settings.NoDataState),
               ExecErrState |-> transExecErr(da.Settings.ExecutionErrorState)]
        added == addSilences(sil, ar, da.Settings, FailingSilences(outcome))
    IN  CASE queries.err.isError \/ outcome = "makeAlertRule" ->
               [err |-> Wrap("failed to migrate alert rule queries",
                             IF queries.err.isError THEN queries.err ELSE PlainError(outcome)),
                s |-> seenUIDs, calls |-> 0, silences |-> sil, logged |-> {}]
          [] generatedUid.err ->
               [err |-> Wrap("failed to migrate alert rule", PlainError("failed to generate UID")),
                s |-> generatedUid.s, calls |-> generatedUid.attempts, silences |-> sil,
                logged |-> {}]
          [] OTHER ->
               [err |-> NoError, ar |-> ar, s |-> generatedUid.s,
                calls |-> generatedUid.attempts, silences |-> added.silences,
                logged |-> added.logged]

\* An entry of rulesPerOrg: the rule of the legacy alert da and the references to the
\* channels it sends to.
WithReferences(ar, da, channelUids) ==
    [alertId |-> da.ID, channelUids |-> channelUids] @@ ar

\* insertRules: the rules in the order `order` the maps are ranged over. A rule whose
\* title is already taken in its namespace gets a blank and its uid appended to its
\* title and to its group.
RECURSIVE insertRulesLoop(_, _, _)
insertRulesLoop(order, rules, titleDedup) ==
    IF order = <<>> THEN rules
    ELSE LET i == Head(order)
             rule == rules[i]
             key == <<rule.OrgID, rule.NamespaceUID>>
             existingTitles == IF key \in DOMAIN titleDedup THEN titleDedup[key] ELSE {}
             renamed == IF rule.Title \in existingTitles
                        THEN [rule EXCEPT !.Title = @ \o <<" ">> \o rule.UID,
                                          !.RuleGroup = @ \o <<" ">> \o rule.UID]
                        ELSE rule
             titles == [k \in DOMAIN titleDedup \cup {key} |->
                           IF k = key THEN existingTitles \cup {renamed.Title} ELSE titleDedup[k]]
         IN  insertRulesLoop(Tail(order), [rules EXCEPT ![i] = renamed], titles)

Orders(n) == {o \in [1..n -> 1..n] : \A i, j \in 1..n : i # j => o[i] # o[j]}

-----------------------------------------------------------------------------
(* The tables and the state of the migration *)

\* The key of the migrated flag that stands for the migration as a whole.
anyOrg == 0

NotMigrated == [o \in OrgIDs \cup {anyOrg} |-> FALSE]

NoRows ==
    [alert_rule_version |-> {}, alert_configuration |-> {}, ngalert_configuration |-> {},
     alert_instance |-> {}]

NoOrgState == [o \in OrgIDs |-> [CreatedFolders |-> <<>>, MigratedDashboards |-> {}]]

\* Before Exec runs, before an alert is translated, before a uidSet is made.
NoExec ==
    [err |-> NoError, alert |-> 0, folderCache |-> <<>>, generalFolderCache |-> <<>>,
     withACLOf |-> {}, silencesFile |-> <<>>, notWritten |-> {}]
NoTranslation == [pc |-> "idle"]
NoUids ==
    [pc |-> "idle", s |-> [set |-> {}, caseInsensitive |-> FALSE], generatedBefore |-> {},
     calls |-> 0]

ruleVars == <<dashAlerts, titleDeduplicatorForFolder, generated, alert_rule, silences>>
serviceVars == <<alertTable, dashboard, dashboardsBefore, ua, orgState, migrated>>
translatorVars == <<exec, translated, uids>>
channelVars == <<alert_notification, dashAlerts, rulesPerOrg, titleDeduplicatorForFolder,
                 amConfigPerOrg, pc>>
migrationVars == <<channelVars, generated, alert_rule, silences, serviceVars>>

-----------------------------------------------------------------------------
(* The migration service: Run, RevertOrg and cleanupDashboardAlerts *)

MaxLegacyAlerts == 2
MaxShortUIDs == 5

GeneralAlertingUID == "general-alerting"

\* The dashboards of service_test.go, all of org 1 and none with permissions of its
\* own: two in folder 5 and one in the general folder.
Dashboards ==
    { [ID |-> 1, OrgID |-> 1, UID |-> "dash1-1", FolderID |-> 5, HasACL |-> FALSE],
      [ID |-> 2, OrgID |-> 1, UID |-> "dash2-1", FolderID |-> 5, HasACL |-> FALSE],
      [ID |-> 8, OrgID |-> 1, UID |-> "dash-in-general-1", FolderID |-> 0, HasACL |-> FALSE] }

\* Dashboards the test does not have: one of org 1 with permissions of its own, and
\* one of org 2 in the general folder.
OtherDashboards ==
    { [ID |-> 3, OrgID |-> 1, UID |-> "dash3-1", FolderID |-> 5, HasACL |-> TRUE],
      [ID |-> 9, OrgID |-> 2, UID |-> "dash9-2", FolderID |-> 0, HasACL |-> FALSE] }

\* The folder of service_test.go.
Folders == { [ID |-> 5, OrgID |-> 1, UID |-> "folder5-1"] }

DashboardByID(id) == CHOOSE d \in Dashboards \cup OtherDashboards : d.ID = id

\* The uid of the folder a dashboard is in; empty for the general folder.
FolderUIDOf(dash) ==
    IF dash.FolderID = 0 THEN ""
    ELSE (CHOOSE f \in Folders : f.ID = dash.FolderID /\ f.OrgID = dash.OrgID).UID

\* The title of a dashboard of the service is its uid.
TitleOf(dash) ==
    CASE dash.ID = 1 -> <<"d", "a", "s", "h", "1", "-", "1">>
      [] dash.ID = 2 -> <<"d", "a", "s", "h", "2", "-", "1">>
      [] dash.ID = 3 -> <<"d", "a", "s", "h", "3", "-", "1">>
      [] dash.ID = 9 -> <<"d", "a", "s", "h", "9", "-", "2">>
      [] OTHER -> <<"d", "a", "s", "h", "-", "i", "n", "-", "g", "e", "n", "e", "r", "a", "l", "-", "1">>

\* The uid of the folder created for the alerts of a dashboard with permissions.
AlertFolderUID(dash) == "alerts-" \o dash.UID

DashboardRow(org, uid) == [OrgID |-> org, UID |-> uid, IsFolder |-> FALSE]
FolderRow(org, uid) == [OrgID |-> org, UID |-> uid, IsFolder |-> TRUE]

\* The dashboard table before the service runs; the orgs of withGeneral already have
\* a General Alerting folder (none has, or the org with the channel has).
InitialDashboards(withGeneral) ==
    {DashboardRow(d.OrgID, d.UID) : d \in Dashboards \cup OtherDashboards}
        \cup {FolderRow(f.OrgID, f.UID) : f \in Folders}
        \cup {FolderRow(o, GeneralAlertingUID) : o \in withGeneral}

\* The channel of service_test.go: notifier1 of org 1.
Notifier1 == <<"n", "o", "t", "i", "f", "i", "e", "r", "1">>
ServiceChannels == << AlertNotification(1, 1, Notifier1, Notifier1, "email", FALSE, FALSE, 0) >>

\* The state the service works on.
ServiceState ==
    [dashboard |-> dashboard, alert_rule |-> alert_rule, ua |-> ua, orgState |-> orgState,
     migrated |-> migrated, generated |-> generated, silences |-> silences, err |-> NoError]

RulesOfOrg(rules, org) == SelectSeq(rules, LAMBDA r : r.OrgID = org)

\* The folder of the rule of an alert of dashboard `dash`: the folder made for a
\* dashboard with permissions of its own, the folder of the dashboard if it exists,
\* the General Alerting folder otherwise.
migratedFolder(dash, org, dashboards) ==
    IF dash.HasACL THEN AlertFolderUID(dash)
    ELSE IF dash.FolderID > 0 /\ FolderRow(org, FolderUIDOf(dash)) \in dashboards
    THEN FolderUIDOf(dash)
    ELSE GeneralAlertingUID

\* The migration of the rows `alerts` of the legacy alert table of org into acc: the
\* folder of every alert is resolved (and created and recorded if it does not
\* exist), the alert is translated and the pair of the alert and its rule (no rule
\* when the translation fails) is recorded with its dashboard.
RECURSIVE migrateAlerts(_, _, _, _)
migrateAlerts(alerts, org, channels, acc) ==
    IF alerts = <<>> THEN acc
    ELSE LET a == Head(alerts).alert
             dash == DashboardByID(a.DashboardID)
             folderUID == migratedFolder(dash, org, acc.dashboard)
             created == FolderRow(org, folderUID) \notin acc.dashboard
             recorded(res) ==
                 LET pair == [LegacyAlertID |-> a.ID,
                              AlertRule |-> IF res.err.isError THEN <<>> ELSE <<res.ar>>]
                     du == IF dash.ID \in DOMAIN acc.upgrades
                           THEN [acc.upgrades[dash.ID] EXCEPT !.MigratedAlerts = Append(@, pair)]
                           ELSE [DashboardID |-> dash.ID, FolderUID |-> FolderUIDOf(dash),
                                 NewFolderUID |-> folderUID, MigratedAlerts |-> <<pair>>]
                 IN  [dashboard |-> acc.dashboard \cup {FolderRow(org, folderUID)},
                      rules |-> IF res.err.isError THEN acc.rules
                                ELSE Append(acc.rules, res.ar),
                      CreatedFolders |-> IF created THEN Append(acc.CreatedFolders, folderUID)
                                         ELSE acc.CreatedFolders,
                      upgrades |-> MapPut(acc.upgrades, dash.ID, du),
                      dedup |-> MapPut(acc.dedup, folderUID, res.dedupSet),
                      generated |-> acc.generated + res.calls,
                      silences |-> res.silences]
         IN  migrateAlerts(Tail(alerts), org, channels,
                 recorded(migrateAlert(a,
                              [DashboardUID |-> dash.UID, DashboardName |-> TitleOf(dash),
                               NewFolderUID |-> folderUID],
                              NoQueries,
                              AlertTitleDeduplicator(acc.dedup, folderUID),
                              NextShortUIDs(acc.generated), channels, acc.silences,
                              Head(alerts).outcome)))

\* The migration of one org: its rules and their versions are inserted, its
\* alertmanager configuration is written if it has channels that are migrated, the
\* state of the org is recorded and the org is marked as migrated.
migrateOrg(org, alerts, channels, st) ==
    LET maps == getNotificationChannelMap(channels)
        configs == IF org \in DOMAIN maps.allChannelsMap THEN {[OrgID |-> org]} ELSE {}
        persisted(acc) ==
            [st EXCEPT
                !.dashboard = acc.dashboard,
                !.alert_rule = @ \o acc.rules,
                !.ua = [@ EXCEPT
                           !.alert_rule_version =
                               @ \cup {[RuleOrgID |-> org, RuleUID |-> acc.rules[i].UID] :
                                          i \in 1..Len(acc.rules)},
                           !.alert_configuration = @ \cup configs],
                !.orgState = [@ EXCEPT ![org] =
                                 [CreatedFolders |-> acc.CreatedFolders,
                                  MigratedDashboards |->
                                      {acc.upgrades[k] : k \in DOMAIN acc.upgrades}]],
                !.migrated = [@ EXCEPT ![org] = TRUE],
                !.generated = acc.generated,
                !.silences = acc.silences]
    IN  persisted(migrateAlerts(SelectSeq(alerts, LAMBDA a : a.alert.OrgID = org), org, channels,
                      [dashboard |-> st.dashboard, rules |-> <<>>, CreatedFolders |-> <<>>,
                       upgrades |-> <<>>, dedup |-> <<>>,
                       generated |-> st.generated, silences |-> st.silences]))

\* RevertOrg that resets the flag of anyOrg as well.
revertOrgResettingAnyOrg(org, st) ==
    LET createdFolders == {st.orgState[org].CreatedFolders[i] :
                              i \in 1..Len(st.orgState[org].CreatedFolders)}
    IN  [st EXCEPT
            !.dashboard = @ \ {FolderRow(org, uid) : uid \in createdFolders},
            !.alert_rule = SelectSeq(@, LAMBDA r : r.OrgID # org),
            !.ua = [alert_rule_version |-> {v \in st.ua.alert_rule_version : v.RuleOrgID # org},
                    alert_configuration |-> {c \in st.ua.alert_configuration : c.OrgID # org},
                    ngalert_configuration |-> {c \in st.ua.ngalert_configuration : c.OrgID # org},
                    alert_instance |-> {v \in st.ua.alert_instance : v.RuleOrgID # org}],
            !.orgState = [@ EXCEPT ![org] = [CreatedFolders |-> <<>>, MigratedDashboards |-> {}]],
            !.migrated = [@ EXCEPT ![org] = FALSE, ![anyOrg] = FALSE]]

\* RevertOrg: the unified alerting rows of the org and the folders recorded as created
\* for it are deleted, its recorded state is cleared and its migrated flag is reset.
revertOrg(org, st) ==
    LET createdFolders == {st.orgState[org].CreatedFolders[i] :
                              i \in 1..Len(st.orgState[org].CreatedFolders)}
    IN  [st EXCEPT
            !.dashboard = @ \ {FolderRow(org, uid) : uid \in createdFolders},
            !.alert_rule = SelectSeq(@, LAMBDA r : r.OrgID # org),
            !.ua = [alert_rule_version |-> {v \in st.ua.alert_rule_version : v.RuleOrgID # org},
                    alert_configuration |-> {c \in st.ua.alert_configuration : c.OrgID # org},
                    ngalert_configuration |-> {c \in st.ua.ngalert_configuration : c.OrgID # org},
                    alert_instance |-> {v \in st.ua.alert_instance : v.RuleOrgID # org}],
            !.orgState = [@ EXCEPT ![org] = [CreatedFolders |-> <<>>, MigratedDashboards |-> {}]],
            !.migrated = [@ EXCEPT ![org] = FALSE]]

RECURSIVE revertOrgs(_, _)
revertOrgs(orgs, st) ==
    IF orgs = {} THEN st
    ELSE LET org == CHOOSE o \in orgs : \A x \in orgs : o <= x
         IN  revertOrgs(orgs \ {org}, revertOrg(org, st))

\* migrateOrgs that does not look at the migrated flag of an org.
RECURSIVE migrateOrgsAlreadyMigratedToo(_, _, _, _)
migrateOrgsAlreadyMigratedToo(orgs, alerts, channels, st) ==
    IF orgs = {} THEN st
    ELSE LET org == CHOOSE o \in orgs : \A x \in orgs : o <= x
         IN  migrateOrgsAlreadyMigratedToo(orgs \ {org}, alerts, channels,
                                           migrateOrg(org, alerts, channels, st))

\* The orgs that are not migrated yet are migrated, in the order of their ids.
RECURSIVE migrateOrgs(_, _, _, _)
migrateOrgs(orgs, alerts, channels, st) ==
    IF orgs = {} THEN st
    ELSE LET org == CHOOSE o \in orgs : \A x \in orgs : o <= x
         IN  migrateOrgs(orgs \ {org}, alerts, channels,
                         IF st.migrated[org] THEN st ELSE migrateOrg(org, alerts, channels, st))

\* Run, called while the flag of anyOrg is not what the setting is (every call of
\* TestServiceRevert is such a call). With unified alerting disabled it resets the
\* flag of anyOrg and does nothing else. With unified alerting enabled it reverts
\* every org first if the migration is forced, migrates the orgs that are not
\* migrated and sets the flag of anyOrg.
run(enabled, forceMigration, alerts, channels, st) ==
    IF ~enabled THEN [st EXCEPT !.migrated[anyOrg] = FALSE]
    ELSE LET start == IF forceMigration THEN revertOrgs(OrgIDs, st) ELSE st
             done == migrateOrgs(OrgIDs, alerts, channels, start)
         IN  [done EXCEPT !.migrated[anyOrg] = TRUE]

\* The uids of the rules of the pairs of a dashboard upgrade that have a rule with a
\* uid.
RuleUidsOf(du) ==
    {du.MigratedAlerts[i].AlertRule[1].UID :
        i \in {j \in 1..Len(du.MigratedAlerts) :
                  /\ du.MigratedAlerts[j].AlertRule # <<>>
                  /\ du.MigratedAlerts[j].AlertRule[1].UID # EmptyString}}

\* The loop over CreatedFolders: the first occurrence of uid is removed.
RemoveFirst(createdFolders, uid) ==
    LET hits == {i \in 1..Len(createdFolders) : createdFolders[i] = uid}
        i == CHOOSE k \in hits : \A j \in hits : k <= j
    IN  IF hits = {} THEN createdFolders
        ELSE SubSeq(createdFolders, 1, i - 1) \o SubSeq(createdFolders, i + 1, Len(createdFolders))

\* cleanupDashboardAlerts without the check that the folder was created by the
\* migration.
cleanupDashboardAlertsWithoutSafetyCheck(org, du, st, failing) ==
    IF du = <<>> THEN st
    ELSE
    LET d == du[1]
        ruleUids == RuleUidsOf(d)
        deleted == IF ruleUids # {}
                   THEN [st EXCEPT !.alert_rule =
                            SelectSeq(@, LAMBDA r : ~(r.OrgID = org /\ r.UID \in ruleUids))]
                   ELSE st
        createdFolders == st.orgState[org].CreatedFolders
        removed == [deleted EXCEPT !.orgState[org].CreatedFolders =
                                       RemoveFirst(createdFolders, d.NewFolderUID)]
    IN  CASE ruleUids # {} /\ failing = "DeleteAlertRules" ->
               [st EXCEPT !.err = Wrap("delete existing alert rules", PlainError(failing))]
          [] d.NewFolderUID # "" /\ d.NewFolderUID # d.FolderUID ->
               IF failing = "DeleteFolders"
               THEN [removed EXCEPT !.err = Wrap("delete folder", PlainError(failing))]
               ELSE [removed EXCEPT !.dashboard = @ \ {FolderRow(org, d.NewFolderUID)}]
          [] OTHER -> deleted

\* cleanupDashboardAlerts of a dashboard upgrade du (a sequence of at most one; the
\* empty sequence is nil): the rules of its pairs are deleted; its new folder, if it
\* is not the folder of the dashboard, is removed from the created folders of the
\* state once and, if it was among them, deleted. `failing` names the call of the
\* store that returns an error, if one does.
cleanupDashboardAlerts(org, du, st, failing) ==
    IF du = <<>> THEN st
    ELSE
    LET d == du[1]
        ruleUids == RuleUidsOf(d)
        deleted == IF ruleUids # {}
                   THEN [st EXCEPT !.alert_rule =
                            SelectSeq(@, LAMBDA r : ~(r.OrgID = org /\ r.UID \in ruleUids))]
                   ELSE st
        createdFolders == st.orgState[org].CreatedFolders
        found == \E i \in 1..Len(createdFolders) : createdFolders[i] = d.NewFolderUID
        removed == [deleted EXCEPT !.orgState[org].CreatedFolders =
                                       RemoveFirst(createdFolders, d.NewFolderUID)]
    IN  CASE ruleUids # {} /\ failing = "DeleteAlertRules" ->
               [st EXCEPT !.err = Wrap("delete existing alert rules", PlainError(failing))]
          [] d.NewFolderUID # "" /\ d.NewFolderUID # d.FolderUID /\ found ->
               IF failing = "DeleteFolders"
               THEN [removed EXCEPT !.err = Wrap("delete folder", PlainError(failing))]
               ELSE [removed EXCEPT !.dashboard = @ \ {FolderRow(org, d.NewFolderUID)}]
          [] OTHER -> deleted

\* The calls of cleanupDashboardAlerts for du that can return an error.
CleanupFailures(org, du) ==
    IF du = <<>> THEN {}
    ELSE (IF RuleUidsOf(du[1]) # {} THEN {"DeleteAlertRules"} ELSE {})
            \cup (IF /\ du[1].NewFolderUID # "" /\ du[1].NewFolderUID # du[1].FolderUID
                     /\ \E i \in 1..Len(orgState[org].CreatedFolders) :
                           orgState[org].CreatedFolders[i] = du[1].NewFolderUID
                  THEN {"DeleteFolders"} ELSE {})

\* The variables take the values of the state st.
Becomes(st) ==
    /\ dashboard' = st.dashboard
    /\ alert_rule' = st.alert_rule
    /\ ua' = st.ua
    /\ orgState' = st.orgState
    /\ migrated' = st.migrated
    /\ generated' = st.generated
    /\ silences' = st.silences
    /\ exec' = [exec EXCEPT !.err = st.err]

\* A legacy alert is added to a dashboard of its org: alert1 of service_test.go, to
\* any dashboard; its conditions can be translated or cannot.
InsertAlert(dashboardID, outcome) ==
    /\ Len(alertTable) < MaxLegacyAlerts
    /\ alertTable' =
          Append(alertTable,
                 [alert |-> LegacyAlert(Len(alertTable) + 1, DashboardByID(dashboardID).OrgID,
                                        dashboardID, Len(alertTable) + 1, <<"a">>,
                                        Settings("", "", <<Notification(Notifier1, 0)>>, NoTags)),
                  outcome |-> outcome])
    /\ UNCHANGED <<dashboard, dashboardsBefore, ua, orgState, migrated, generated, alert_rule,
                   silences>>
    /\ UNCHANGED channelVars
    /\ UNCHANGED translatorVars

\* Rows are added to the tables the migration does not fill, for a migrated org.
InsertUnmigratedRows(org) ==
    /\ migrated[org]
    /\ [OrgID |-> org] \notin ua.ngalert_configuration
    /\ ua' = [ua EXCEPT !.ngalert_configuration = @ \cup {[OrgID |-> org]},
                        !.alert_instance = @ \cup {[RuleOrgID |-> org, RuleUID |-> <<"a">>]}]
    /\ UNCHANGED <<alertTable, dashboard, dashboardsBefore, orgState, migrated, generated,
                   alert_rule, silences>>
    /\ UNCHANGED channelVars
    /\ UNCHANGED translatorVars

\* A call of Run while the flag of anyOrg is not what the setting is: the calls of
\* TestServiceRevert are made with unified alerting enabled after the flag was
\* reset (by SetMigrated or by a run with unified alerting disabled), and with
\* unified alerting disabled after a run that set it.
Run(enabled, forceMigration) ==
    /\ migrated[anyOrg] # enabled
    /\ enabled => generated + 2 * Len(alertTable) <= MaxShortUIDs
    /\ Becomes(run(enabled, forceMigration, alertTable, alert_notification, ServiceState))
    /\ UNCHANGED <<alertTable, dashboardsBefore>>
    /\ UNCHANGED channelVars
    /\ UNCHANGED <<translated, uids>>

RevertOrg(org) ==
    /\ Becomes(revertOrg(org, ServiceState))
    /\ UNCHANGED <<alertTable, dashboardsBefore>>
    /\ UNCHANGED channelVars
    /\ UNCHANGED <<translated, uids>>

\* cleanupDashboardAlerts for nil or for one of the dashboard upgrades recorded for
\* the org; `failing` names the call of the store that returns an error, if one does.
CleanupDashboardAlerts(org, du, failing) ==
    /\ IF du = <<>> THEN TRUE ELSE du[1] \in orgState[org].MigratedDashboards
    /\ failing \in {""} \cup CleanupFailures(org, du)
    /\ Becomes(cleanupDashboardAlerts(org, du, ServiceState, failing))
    /\ UNCHANGED <<alertTable, dashboardsBefore>>
    /\ UNCHANGED channelVars
    /\ UNCHANGED <<translated, uids>>

-----------------------------------------------------------------------------
(* Exec of migration.go: the loop over the legacy alerts, with the folder of every
   alert and the errors that end the run *)

\* MaxFolderName (255 in the code), scaled down with the titles and uids of the
\* dashboards.
MaxFolderName == 13

PanelIDs == {1, 2}

\* The dashboards of every org: one in folder5, one in the general folder, one in a
\* folder that does not exist any more, and one with permissions of its own and a
\* title that does not fit the name of its folder. A dashboard is identified by
\* its org and its id. The title of a dashboard is unique in its folder.
ExecDashboards ==
    { [ID |-> 1, UID |-> <<"u", "1">>, Title |-> <<"d">>, FolderID |-> 5,
       FolderUID |-> "folder5", HasACL |-> FALSE],
      [ID |-> 2, UID |-> <<"u", "2">>, Title |-> <<"d">>, FolderID |-> 0,
       FolderUID |-> "", HasACL |-> FALSE],
      [ID |-> 3, UID |-> <<"u", "3">>, Title |-> <<"d">>, FolderID |-> 6,
       FolderUID |-> "folder6", HasACL |-> FALSE],
      [ID |-> 4, UID |-> <<"u", "4">>, Title |-> <<"e", "e">>, FolderID |-> 5,
       FolderUID |-> "folder5", HasACL |-> TRUE] }

ExecDashboardByID(id) == CHOOSE d \in ExecDashboards : d.ID = id

\* The uid the folder service gives the folder it creates for an org.
CreatedFolderUID(org) == IF org = 1 THEN "alerts1" ELSE "alerts2"

\* The folders of the dashboard table before Exec runs.
ExecFolders == {FolderRow(o, "folder5") : o \in OrgIDs}

DASHBOARD_FOLDER(title, uid) ==
    title \o <<" ", "A", "l", "e", "r", "t", "s", " ", "-", " ">> \o uid

getAlertFolderNameFromDashboard(dash) ==
    LET maxLen == MaxFolderName - Len(DASHBOARD_FOLDER(<<>>, dash.UID))
        title == IF Len(dash.Title) > maxLen THEN SubSeq(dash.Title, 1, maxLen) ELSE dash.Title
    IN  DASHBOARD_FOLDER(title, dash.UID)

Folder(org, uid) == [OrgID |-> org, UID |-> uid]

\* What can happen to the calls Exec makes for one alert: all succeed, or one of them
\* returns an error, or the folder service answers with a folder without a uid.
Outcomes ==
    {"ok", "transConditions", "ErrFolderNotFound", "GetDashboard", "createFolder", "getACL",
     "setACL", "getOrCreateGeneralFolder", "emptyFolderUID", "makeAlertRule",
     "addErrorSilence", "addNoDataSilence", "addSilences"}

\* gf of Exec: the general folder of the org of the dashboard, from the cache or from
\* getOrCreateGeneralFolder.
gf(dash, org, da, outcome, folders, caches) ==
    IF org \in DOMAIN caches.generalFolderCache
    THEN [f |-> caches.generalFolderCache[org], err |-> NoError, folders |-> folders, caches |-> caches]
    ELSE IF outcome = "getOrCreateGeneralFolder"
    THEN [f |-> Folder(org, ""), folders |-> folders, caches |-> caches,
          err |-> MigrationError(da.ID, "failed to get or create general folder")]
    ELSE LET f == Folder(org, IF outcome = "emptyFolderUID" THEN "" ELSE GeneralAlertingUID)
         IN  [f |-> f, err |-> NoError,
              folders |-> folders \cup {FolderRow(org, GeneralAlertingUID)},
              caches |-> [caches EXCEPT !.generalFolderCache = MapPut(@, org, f)]]

\* The switch of Exec: the folder of the rule of alert da of dashboard dash.
migratedFolderOf(dash, org, da, outcome, folders, caches) ==
    IF dash.HasACL
    THEN LET folderName == getAlertFolderNameFromDashboard(dash)
             f == Folder(org, IF outcome = "emptyFolderUID" THEN "" ELSE CreatedFolderUID(org))
             created == folders \cup {FolderRow(org, CreatedFolderUID(org))}
         IN  CASE folderName \in DOMAIN caches.folderCache ->
                    [f |-> caches.folderCache[folderName], err |-> NoError, folders |-> folders,
                     caches |-> caches]
               [] outcome = "createFolder" ->
                    [f |-> f, folders |-> folders, caches |-> caches,
                     err |-> MigrationError(da.ID, "failed to create folder")]
               [] outcome = "getACL" ->
                    [f |-> f, folders |-> created, caches |-> caches,
                     err |-> MigrationError(da.ID, "failed to get dashboard permissions")]
               [] outcome = "setACL" ->
                    [f |-> f, folders |-> created, caches |-> caches,
                     err |-> MigrationError(da.ID, "failed to set folder permissions")]
               [] OTHER ->
                    [f |-> f, err |-> NoError, folders |-> created,
                     caches |-> [caches EXCEPT !.folderCache = MapPut(@, folderName, f),
                                         !.withACLOf = @ \cup {<<f, dash.ID>>}]]
    ELSE IF dash.FolderID > 0 /\ FolderRow(org, dash.FolderUID) \in folders
    THEN [f |-> Folder(org, IF outcome = "emptyFolderUID" THEN "" ELSE dash.FolderUID),
          err |-> NoError, folders |-> folders, caches |-> caches]
    ELSE gf(dash, org, da, outcome, folders, caches)

\* The outcomes that the calls made for an alert of dashboard dash can have.
OutcomesOf(dash, org, folders, caches) ==
    {"ok", "transConditions", "ErrFolderNotFound", "GetDashboard", "makeAlertRule"}
    \cup (IF dash.HasACL
          THEN IF getAlertFolderNameFromDashboard(dash) \in DOMAIN caches.folderCache
               THEN {}
               ELSE {"createFolder", "getACL", "setACL", "emptyFolderUID"}
          ELSE IF dash.FolderID > 0 /\ FolderRow(org, dash.FolderUID) \in folders
          THEN {"emptyFolderUID"}
          ELSE IF org \in DOMAIN caches.generalFolderCache
          THEN {}
          ELSE {"getOrCreateGeneralFolder", "emptyFolderUID"})

\* Exec that records the error of an alert and goes on with the next alert.
execAlertFailedButContinuing(st, da, err) ==
    [st EXCEPT !.exec = [st.exec EXCEPT !.err = err, !.alert = da.ID],
               !.returned = FALSE]

\* Exec returns err while it works on alert da; st is the state of the run by then,
\* with the folders that were created and the caches as they were filled.
execAlertFailed(st, da, err) ==
    [st EXCEPT !.exec = [st.exec EXCEPT !.err = err, !.alert = da.ID],
               !.returned = TRUE]

\* One iteration of the loop of Exec, for the legacy alert da: the state of the run
\* after it (err is the error Exec returns, if it returns in this iteration). gens is
\* what the calls of util.GenerateShortUID return. The map of the org is keyed by the
\* pointer to the rule, which is a new object: the rule is never found in the map
\* and is always added to it, with the references of extractChannelIDs.
execAlert(da, outcome, st, gens) ==
    LET dash == ExecDashboardByID(da.DashboardID)
        iteration(resolved) ==
            LET found == [st EXCEPT !.exec = resolved.caches, !.dashboard = resolved.folders]
                made(res) ==
                    IF res.err.isError
                    THEN execAlertFailed([found EXCEPT !.generated = @ + res.calls,
                                                       !.seenUIDs = res.s],
                                         da, Wrap("failed to migrate alert rule", res.err))
                    ELSE [found EXCEPT
                             !.exec = [@ EXCEPT !.alert = da.ID],
                             !.rulesPerOrg =
                                 Append(@, WithReferences(res.ar, da, extractChannelIDs(da))),
                             !.generated = @ + res.calls,
                             !.seenUIDs = res.s,
                             !.silences = res.silences]
            IN  CASE resolved.err.isError -> execAlertFailed(found, da, resolved.err)
                  [] resolved.f.UID = "" ->
                       execAlertFailed(found, da, MigrationError(da.ID, "empty folder identifier"))
                  [] OTHER ->
                       made(makeAlertRule(NoQueries, da, dash.UID, resolved.f.UID, st.seenUIDs,
                                          gens, st.silences, outcome))
    IN  CASE outcome = "transConditions" ->
               execAlertFailed(st, da, PlainError("transConditions"))
          [] outcome = "ErrFolderNotFound" ->
               execAlertFailed(st, da, MigrationError(da.ID, "dashboard not found"))
          [] outcome = "GetDashboard" ->
               execAlertFailed(st, da, MigrationError(da.ID, "failed to get dashboard"))
          [] OTHER ->
               iteration(migratedFolderOf(dash, da.OrgID, da, outcome, st.dashboard, st.exec))

\* The state of the run of Exec.
ExecState ==
    [exec |-> exec, dashboard |-> dashboard, rulesPerOrg |-> rulesPerOrg,
     generated |-> generated, seenUIDs |-> uids.s, silences |-> silences, returned |-> FALSE]

\* The variables of the run of Exec take the values of st.
ExecBecomes(st) ==
    /\ exec' = st.exec
    /\ dashboard' = st.dashboard
    /\ rulesPerOrg' = st.rulesPerOrg
    /\ generated' = st.generated
    /\ uids' = [uids EXCEPT !.s = st.seenUIDs]
    /\ silences' = st.silences
    /\ pc' = IF st.returned THEN "returned" ELSE pc

\* The next legacy alert of the run of Exec, with these settings. A panel of a
\* dashboard has one alert.
ExecAlert(org, dashboardID, panelID, name, settings, outcome) ==
    /\ pc = "start"
    /\ Len(dashAlerts) < MaxAlerts
    /\ \A i \in 1..Len(dashAlerts) :
          ~(/\ dashAlerts[i].OrgID = org
            /\ dashAlerts[i].DashboardID = dashboardID
            /\ dashAlerts[i].PanelID = panelID)
    /\ outcome \in OutcomesOf(ExecDashboardByID(dashboardID), org, dashboard, exec)
                      \cup SilenceOutcomes(settings)
    /\ LET da == LegacyAlert(Len(dashAlerts) + 1, org, dashboardID, panelID, name, settings)
       IN  /\ dashAlerts' = Append(dashAlerts, da)
           /\ ExecBecomes(execAlert(da, outcome, ExecState, NextShortUIDs(generated)))
    /\ UNCHANGED <<alert_notification, titleDeduplicatorForFolder, amConfigPerOrg, alert_rule>>
    /\ UNCHANGED <<alertTable, dashboardsBefore, ua, orgState, migrated>>
    /\ UNCHANGED translated

-----------------------------------------------------------------------------
(* The steps of a run: the channels, the alerts, setupAlertmanagerConfigs,
   insertRules and writeAlertmanagerConfig *)

\* A row is added to alert_notification. A channel name is unique within an org.
InsertAlertNotification(org, uid, name, type, isDefault, sendReminder, frequency) ==
    /\ pc = "start"
    /\ Len(alert_notification) < MaxChannels
    /\ \A i \in 1..Len(alert_notification) :
          ~(alert_notification[i].OrgID = org /\ alert_notification[i].Name = name)
    /\ alert_notification' =
          Append(alert_notification,
                 AlertNotification(Len(alert_notification) + 1, org, uid, name, type,
                                   isDefault, sendReminder, frequency))
    /\ UNCHANGED <<rulesPerOrg, amConfigPerOrg, pc>>
    /\ UNCHANGED ruleVars
    /\ UNCHANGED serviceVars
    /\ UNCHANGED translatorVars

\* migrateAlert for the next legacy alert of an org migration: the rule is kept with
\* the references of the alert, the deduplicator of the folder, the silences and
\* the calls of util.GenerateShortUID are those after the call, and what the call
\* was given and what it returned is recorded. An alert that cannot be translated
\* gets no rule.
MigrateAlert(alert, info, cond, outcome) ==
    /\ pc = "start"
    /\ Len(dashAlerts) < MaxAlerts
    /\ alert.ID = Len(dashAlerts) + 1
    /\ LET res == migrateAlert(alert, info, cond,
                               AlertTitleDeduplicator(titleDeduplicatorForFolder[alert.OrgID],
                                                      info.NewFolderUID),
                               NextShortUIDs(generated), alert_notification, silences, outcome)
       IN  /\ dashAlerts' = Append(dashAlerts, alert)
           /\ rulesPerOrg' =
                 IF res.err.isError THEN rulesPerOrg
                 ELSE Append(rulesPerOrg, WithReferences(res.ar, alert, extractChannelIDs(alert)))
           /\ titleDeduplicatorForFolder' =
                 IF res.err.isError THEN titleDeduplicatorForFolder
                 ELSE [titleDeduplicatorForFolder EXCEPT
                          ![alert.OrgID] = MapPut(@, info.NewFolderUID, res.dedupSet)]
           /\ generated' = generated + res.calls
           /\ silences' = res.silences
           /\ translated' = [pc |-> IF res.err.isError THEN "failed" ELSE "migrated",
                             alert |-> alert, info |-> info, cond |-> cond, res |-> res]
    /\ UNCHANGED <<alert_notification, amConfigPerOrg, alert_rule, pc>>
    /\ UNCHANGED serviceVars
    /\ UNCHANGED <<exec, uids>>

\* The references a legacy alert can hold in its settings, as a list in the order of
\* a set of them.
RECURSIVE NotificationsOf(_)
NotificationsOf(refs) ==
    IF refs = {} THEN <<>>
    ELSE LET ui == CHOOSE x \in refs : TRUE
         IN  <<Notification(IF ui.kind = "uid" THEN ui.uid ELSE EmptyString,
                            IF ui.kind = "id" THEN ui.id ELSE 0)>>
                 \o NotificationsOf(refs \ {ui})

\* The one alert of a run whose channel references are followed: the rules of a run
\* get their labels independently of each other. It is an alert of the dashboard in
\* the general folder.
AddRule(org, channelUids) ==
    /\ dashAlerts = <<>>
    /\ ExecAlert(org, 2, 1, <<"a">>, Settings("", "", NotificationsOf(channelUids), NoTags),
                 "ok")

\* The orgs of rulesPerOrg: those a rule was built for.
OrgsWithRules(rules) == {rules[i].OrgID : i \in 1..Len(rules)}

\* The silences of the run that are silences of the org.
SilencesOfOrg(sil, orgID) == SelectSeq(sil, LAMBDA silence : silence.OrgID = orgID)

\* writeSilencesFile: the silences of the org, if it has any, are written to the
\* silences file of the org, or the write returns an error and the file is as it
\* was.
writeSilencesFile(files, sil, orgID, fails) ==
    CASE SilencesOfOrg(sil, orgID) = <<>> -> [err |-> NoError, files |-> files]
      [] fails -> [err |-> PlainError("writeSilencesFile"), files |-> files]
      [] OTHER -> [err |-> NoError, files |-> MapPut(files, orgID, SilencesOfOrg(sil, orgID))]

\* The loop of Exec over the orgs of rulesPerOrg, in some order: the silences file
\* of every org is written, and an error is logged and nothing else. `failing` are
\* the orgs whose write returns an error.
RECURSIVE writeSilencesFiles(_, _, _, _, _)
writeSilencesFiles(orgs, files, logged, sil, failing) ==
    IF orgs = {} THEN [files |-> files, logged |-> logged]
    ELSE LET orgID == CHOOSE o \in orgs : TRUE
             written == writeSilencesFile(files, sil, orgID, orgID \in failing)
         IN  writeSilencesFiles(orgs \ {orgID}, written.files,
                                IF written.err.isError THEN logged \cup {orgID} ELSE logged,
                                sil, failing)

\* What Exec does after the loop over the alerts until setupAlertmanagerConfigs has
\* returned: the silences files are written, then the configurations are built. The
\* writes of the orgs `failing` return an error; the channels are loaded or the
\* query fails; `order` is the order in which the map of the orgs is ranged over;
\* the encryption service works or fails; `rejected` are the types whose notifiers
\* the validation rejects.
SetupAlertmanagerConfigs(failing, loads, order, encrypts, rejected) ==
    /\ pc = "start"
    /\ failing \subseteq {o \in OrgsWithRules(rulesPerOrg) : SilencesOfOrg(silences, o) # <<>>}
    /\ LET written == writeSilencesFiles(OrgsWithRules(rulesPerOrg), exec.silencesFile, {},
                                         silences, failing)
           res == setupAlertmanagerConfigs(alert_notification, loads, order, rulesPerOrg, uids.s,
                                           NextShortUIDs(generated), encrypts, rejected)
       IN  /\ amConfigPerOrg' = res.amConfigPerOrg
           /\ rulesPerOrg' = res.rules
           /\ generated' = generated + res.calls
           /\ uids' = [pc |-> "setup", s |-> res.s, generatedBefore |-> uids.generatedBefore,
                       calls |-> uids.calls, order |-> order]
           /\ exec' = [exec EXCEPT !.err = res.err, !.silencesFile = written.files,
                                   !.notWritten = written.logged]
           /\ pc' = IF res.err.isError THEN "returned" ELSE "configured"
    /\ UNCHANGED <<alert_notification, dashAlerts, titleDeduplicatorForFolder, alert_rule,
                   silences, translated>>
    /\ UNCHANGED serviceVars

\* The orgs with channels that are migrated.
OrgsWithChannels == DOMAIN getNotificationChannelMap(alert_notification).allChannelsMap

\* setupAlertmanagerConfigs when every call it makes succeeds.
SetupSucceeds ==
    \E order \in OrdersOf(OrgsWithChannels) :
        SetupAlertmanagerConfigs({}, TRUE, order, TRUE, {})

\* insertRules: the maps are ranged over in some order; the rules are renamed in
\* place and handed to InsertAlertRules.
insertRules ==
    /\ pc = "configured"
    /\ \E order \in Orders(Len(rulesPerOrg)) :
          rulesPerOrg' = insertRulesLoop(order, rulesPerOrg, <<>>)
    /\ alert_rule' = rulesPerOrg'
    /\ pc' = "inserted"
    /\ UNCHANGED <<alert_notification, dashAlerts, titleDeduplicatorForFolder, generated,
                   amConfigPerOrg, silences>>
    /\ UNCHANGED serviceVars
    /\ UNCHANGED translatorVars

\* The last loop of Exec: the configuration of every org is written.
writeAlertmanagerConfig ==
    /\ pc = "inserted"
    /\ ua' = [ua EXCEPT !.alert_configuration =
                 @ \cup {[OrgID |-> o, config |-> amConfigPerOrg[o]] : o \in DOMAIN amConfigPerOrg}]
    /\ pc' = "returned"
    /\ UNCHANGED <<alert_notification, rulesPerOrg, amConfigPerOrg>>
    /\ UNCHANGED ruleVars
    /\ UNCHANGED <<alertTable, dashboard, dashboardsBefore, orgState, migrated>>
    /\ UNCHANGED translatorVars

\* The state before a run: the channels, the dashboard table and seenUIDs.
InitState(channels, folders, uidSet) ==
    /\ alert_notification = channels
    /\ dashAlerts = <<>>
    /\ rulesPerOrg = <<>>
    /\ titleDeduplicatorForFolder = NoTitles
    /\ generated = 0
    /\ amConfigPerOrg = NoConfigs
    /\ alert_rule = <<>>
    /\ pc = "start"
    /\ alertTable = <<>>
    /\ dashboard = folders
    /\ dashboardsBefore = folders
    /\ ua = NoRows
    /\ orgState = NoOrgState
    /\ migrated = NotMigrated
    /\ exec = NoExec
    /\ translated = NoTranslation
    /\ uids = uidSet
    /\ silences = <<>>

-----------------------------------------------------------------------------
(* The receivers, routes and contact labels of a run *)

InitChannels == InitState(<<>>, {}, NoUids)

NextChannels ==
    \/ \E org \in OrgIDs, name \in ChannelNames, type \in ChannelTypes,
          isDefault \in BOOLEAN, sendReminder \in sendReminderValues, frequency \in frequencyValues :
          InsertAlertNotification(org, UidOf(Len(alert_notification) + 1),
                                  name, type, isDefault, sendReminder, frequency)
    \/ \E org \in OrgIDs, channelUids \in SUBSET uidOrIDs : AddRule(org, channelUids)
    \/ SetupSucceeds

SpecChannels == InitChannels /\ [][NextChannels]_vars

-----------------------------------------------------------------------------
(* The titles and groups of the rules of an org migration *)

\* The names of the legacy alerts: one short enough to take a suffix, one of the
\* maximum title length and one that is longer.
NameOfLength(n) == [i \in 1..n |-> "a"]
AlertNames ==
    {NameOfLength(n) : n \in {1, AlertDefinitionMaxTitleLength, AlertDefinitionMaxTitleLength + 1}}

\* The dashboards of an org with alerts, with the folder of their rules: one in the
\* general folder and one whose folder does not exist any more, whose rules go to
\* the General Alerting folder, and one in a folder that exists. The title of a
\* dashboard is unique in its folder.
DashboardUpgradeInfos ==
    { [DashboardID |-> 1, DashboardUID |-> "d1", DashboardName |-> <<"d">>,
       NewFolderUID |-> GeneralAlertingUID],
      [DashboardID |-> 2, DashboardUID |-> "d2", DashboardName |-> <<"d">>,
       NewFolderUID |-> GeneralAlertingUID],
      [DashboardID |-> 3, DashboardUID |-> "d3", DashboardName |-> <<"d">>,
       NewFolderUID |-> "f1"] }

InfoOf(alert) == CHOOSE info \in DashboardUpgradeInfos : info.DashboardID = alert.DashboardID

\* The next alert of the run is an alert of a panel that has none yet.
MigrateNamedAlert(org, info, panelID, name) ==
    /\ \A i \in 1..Len(dashAlerts) :
          ~(/\ dashAlerts[i].OrgID = org
            /\ dashAlerts[i].DashboardID = info.DashboardID
            /\ dashAlerts[i].PanelID = panelID)
    /\ MigrateAlert(LegacyAlert(Len(dashAlerts) + 1, org, info.DashboardID, panelID, name,
                                NoSettings),
                    info, NoQueries, "ok")

InitRules == InitChannels

NextRules ==
    \/ \E org \in OrgIDs, info \in DashboardUpgradeInfos, panelID \in PanelIDs,
          name \in AlertNames :
          MigrateNamedAlert(org, info, panelID, name)
    \/ SetupSucceeds
    \/ insertRules

SpecRules == InitRules /\ [][NextRules]_vars

-----------------------------------------------------------------------------
(* The runs of the migration service *)

InitService ==
    \E withGeneral \in {{}, {1}} :
        InitState(ServiceChannels, InitialDashboards(withGeneral), NoUids)

NextService ==
    \/ \E d \in Dashboards \cup OtherDashboards, outcome \in {"ok", "transConditions"} :
          InsertAlert(d.ID, outcome)
    \/ \E org \in OrgIDs : InsertUnmigratedRows(org)
    \/ \E enabled \in BOOLEAN, forceMigration \in BOOLEAN : Run(enabled, forceMigration)
    \/ \E org \in OrgIDs : RevertOrg(org)
    \/ \E org \in OrgIDs :
          \E du \in {<<>>} \cup {<<d>> : d \in orgState[org].MigratedDashboards} :
              CleanupDashboardAlerts(org, du, "")

SpecService == InitService /\ [][NextService]_vars

\* The runs of the service in which a deletion of cleanupDashboardAlerts can fail.
NextCleanup ==
    \/ NextService
    \/ \E org \in OrgIDs : \E d \in orgState[org].MigratedDashboards :
          \E failing \in {"DeleteAlertRules", "DeleteFolders"} :
              CleanupDashboardAlerts(org, <<d>>, failing)

SpecCleanup == InitService /\ [][NextCleanup]_vars

-----------------------------------------------------------------------------
(* The runs of Exec *)

InitExec == InitState(ServiceChannels, ExecFolders, NoUids)

\* The settings of the legacy alerts of a dashboard: every alert refers to
\* notifier1, and those of the dashboard whose folder does not exist any more keep
\* the state on an execution error.
ExecSettings(d) ==
    Settings("", IF d.ID = 3 THEN "keep_state" ELSE "", <<Notification(Notifier1, 0)>>, NoTags)

NextExec ==
    \/ \E org \in OrgIDs, d \in ExecDashboards, panelID \in {1}, outcome \in Outcomes :
          ExecAlert(org, d.ID, panelID, <<"a">>, ExecSettings(d), outcome)
    \/ SetupSucceeds
    \/ insertRules
    \/ writeAlertmanagerConfig

SpecExec == InitExec /\ [][NextExec]_vars

-----------------------------------------------------------------------------
(* The translation of the settings and of the queries of one legacy alert *)

\* The dashboard of the alert that is translated.
TranslatedDashboard == CHOOSE info \in DashboardUpgradeInfos : info.DashboardID = 3

InitTranslate == InitChannels

NextTranslate ==
    \/ /\ dashAlerts = <<>>
       /\ \E noDataState \in NoDataOptions, executionErrorState \in ExecutionErrorOptions :
             \E outcome \in MigrateOutcomes(Settings(noDataState, executionErrorState, <<>>,
                                                     NoTags)) :
                 MigrateAlert(LegacyAlert(1, 1, 3, 1, <<"a">>,
                                          Settings(noDataState, executionErrorState, <<>>,
                                                   NoTags)),
                              TranslatedDashboard, NoQueries, outcome)
    \/ /\ dashAlerts = <<>>
       /\ \E n \in 1..MaxQueries : \E data \in QueriesOfLength(n) :
             MigrateAlert(LegacyAlert(1, 1, 3, 1, <<"a">>, NoSettings),
                          TranslatedDashboard, Condition(data), "ok")

SpecTranslate == InitTranslate /\ [][NextTranslate]_vars

-----------------------------------------------------------------------------
(* The uidSet of migration.go *)

\* The uids of this part: legacy uids and short uids that differ in case only or in
\* more than case.
UIDs == {<<"a">>, <<"A">>, <<"b">>, <<"B">>, <<"c">>, <<"C">>}

\* The sequences of short uids util.GenerateShortUID can return to one call of
\* generateUid: none was returned before and none is returned twice.
GeneratedShortUIDs(before) ==
    {gens \in [1..generateUidAttempts -> UIDs \ before] :
        \A i, j \in 1..generateUidAttempts : i # j => gens[i] # gens[j]}

\* A uidSet is made.
NewUidSet(caseInsensitive) ==
    /\ uids.pc = "idle"
    /\ uids' = [pc |-> "made", s |-> [set |-> {}, caseInsensitive |-> caseInsensitive],
                generatedBefore |-> {}, calls |-> 0]
    /\ UNCHANGED <<exec, translated>>
    /\ UNCHANGED migrationVars

\* The uid of a legacy channel is added to the uidSet.
AddUid(uid) ==
    /\ uids.pc # "idle"
    /\ uids' = [uids EXCEPT !.s = add(uids.s, uid)]
    /\ UNCHANGED <<exec, translated>>
    /\ UNCHANGED migrationVars

\* generateUid is called; gens is what util.GenerateShortUID returns to it, as far
\* as it is called.
GenerateUid(gens) ==
    /\ uids.pc # "idle"
    /\ LET res == generateUid(uids.s, gens)
       IN  uids' = [pc |-> "generated", s |-> res.s,
                    generatedBefore |-> uids.generatedBefore
                                          \cup {gens[i] : i \in 1..res.attempts},
                    calls |-> uids.calls + 1,
                    tried |-> [i \in 1..res.attempts |-> gens[i]],
                    uid |-> res.uid, err |-> res.err]
    /\ UNCHANGED <<exec, translated>>
    /\ UNCHANGED migrationVars

InitUids == InitChannels

NextUids ==
    \/ \E caseInsensitive \in BOOLEAN : NewUidSet(caseInsensitive)
    \/ \E uid \in UIDs : AddUid(uid)
    \/ \E gens \in GeneratedShortUIDs(uids.generatedBefore) : GenerateUid(gens)

SpecUids == InitUids /\ [][NextUids]_vars

-----------------------------------------------------------------------------
(* The regex matchers of the routes (labels.MatchRegexp) *)

\* The regular expressions createRoute writes: a sequence of items, each ".*", an
\* escaped character, "." or a character that stands for itself.
RECURSIVE RegexpItems(_)
RegexpItems(re) ==
    IF re = <<>> THEN <<>>
    ELSE IF Len(re) >= 2 /\ re[1] = "." /\ re[2] = "*"
    THEN <<[kind |-> "any*"]>> \o RegexpItems(SubSeq(re, 3, Len(re)))
    ELSE IF Len(re) >= 2 /\ re[1] = "\\"
    THEN <<[kind |-> "char", char |-> re[2]]>> \o RegexpItems(SubSeq(re, 3, Len(re)))
    ELSE IF re[1] = "."
    THEN <<[kind |-> "any"]>> \o RegexpItems(Tail(re))
    ELSE <<[kind |-> "char", char |-> re[1]]>> \o RegexpItems(Tail(re))

\* The items match the whole of s.
RECURSIVE MatchItems(_, _)
MatchItems(items, s) ==
    IF items = <<>> THEN s = <<>>
    ELSE CASE Head(items).kind = "any*" ->
                \E k \in 0..Len(s) : MatchItems(Tail(items), SubSeq(s, k + 1, Len(s)))
           [] Head(items).kind = "any" ->
                s # <<>> /\ MatchItems(Tail(items), Tail(s))
           [] OTHER ->
                s # <<>> /\ Head(s) = Head(items).char /\ MatchItems(Tail(items), Tail(s))

\* A regex matcher matches a value when the expression, anchored at both ends,
\* matches it.
MatcherMatches(matcher, value) == MatchItems(RegexpItems(matcher.Value), value)

\* The channels of the runs that look at the routes: all of one org and of one
\* type, named with a comma, with a name and with a name that begins with it.
NameComma == <<",">>
NameA == <<"a">>
RouteChannelNames == {NameComma, NameA, NameUnder}
RouteRefs == {ByID(1), ByID(2), ByID(3)}

MaxRouteChannels == 3

\* A row of org 1 is added to alert_notification.
InsertRouteChannel(name, isDefault) ==
    /\ pc = "start"
    /\ Len(alert_notification) < MaxRouteChannels
    /\ \A i \in 1..Len(alert_notification) : alert_notification[i].Name # name
    /\ alert_notification' =
          Append(alert_notification,
                 AlertNotification(Len(alert_notification) + 1, 1,
                                   UidOf(Len(alert_notification) + 1), name, "email",
                                   isDefault, FALSE, 0))
    /\ UNCHANGED <<rulesPerOrg, amConfigPerOrg, pc>>
    /\ UNCHANGED ruleVars
    /\ UNCHANGED serviceVars
    /\ UNCHANGED translatorVars

InitRoutes == InitChannels

NextRoutes ==
    \/ \E name \in RouteChannelNames, isDefault \in BOOLEAN : InsertRouteChannel(name, isDefault)
    \/ \E channelUids \in SUBSET RouteRefs : AddRule(1, channelUids)
    \/ SetupSucceeds

SpecRoutes == InitRoutes /\ [][NextRoutes]_vars

-----------------------------------------------------------------------------
(* The uids of the notifiers (determineChannelUid of channel.go) *)

MaxNotifierChannels == 3

\* The uid column of a legacy channel in this part: empty, or one of two uids that
\* differ in case only. A uid is unique within an org.
LegacyUIDs == {EmptyString, <<"a">>, <<"A">>}

\* A row with a legacy uid is added to alert_notification.
InsertNotifierChannel(org, uid, isDefault) ==
    /\ pc = "start"
    /\ Len(alert_notification) < MaxNotifierChannels
    /\ \A i \in 1..Len(alert_notification) :
          ~(alert_notification[i].OrgID = org /\ alert_notification[i].UID = uid
            /\ uid # EmptyString)
    /\ alert_notification' =
          Append(alert_notification,
                 AlertNotification(Len(alert_notification) + 1, org, uid,
                                   <<"n", ByteOrder[5 + Len(alert_notification) + 1]>>,
                                   "email", isDefault, FALSE, 0))
    /\ UNCHANGED <<rulesPerOrg, amConfigPerOrg, pc>>
    /\ UNCHANGED ruleVars
    /\ UNCHANGED serviceVars
    /\ UNCHANGED translatorVars

\* seenUIDs of the migration is made for a database that compares uids with or
\* without case.
InitNotifiers ==
    \E caseInsensitive \in BOOLEAN :
        InitState(<<>>, {}, [NoUids EXCEPT !.s.caseInsensitive = caseInsensitive])

NextNotifiers ==
    \/ \E org \in OrgIDs, uid \in LegacyUIDs, isDefault \in BOOLEAN :
          InsertNotifierChannel(org, uid, isDefault)
    \/ SetupSucceeds

SpecNotifiers == InitNotifiers /\ [][NextNotifiers]_vars

-----------------------------------------------------------------------------
(* The channel references of a legacy alert (alert_rule.go and channel.go) *)

MaxNotifications == 2

\* The references a legacy alert can hold in its settings: a row by id, also one
\* that does not exist, the first row by uid, and a uid no channel has.
NotificationRefs ==
    {Notification(EmptyString, k) : k \in 1..(MaxChannels + 1)}
        \cup {Notification(UidOf(1), 0), Notification(ObsoleteUid, 0)}

Notifications ==
    UNION {[1..n -> NotificationRefs] : n \in 0..MaxNotifications}

\* A row of a type that is migrated is added to alert_notification.
InsertReferencedChannel(org, name, isDefault) ==
    /\ dashAlerts = <<>>
    /\ InsertAlertNotification(org, UidOf(Len(alert_notification) + 1), name, "email",
                               isDefault, FALSE, 0)

\* The one legacy alert of the run, of org orgID and with these references, is
\* migrated.
MigrateReferences(orgID, notifications) ==
    /\ dashAlerts = <<>>
    /\ MigrateAlert(LegacyAlert(1, orgID, 3, 1, <<"a">>,
                                Settings("", "", notifications, NoTags)),
                    TranslatedDashboard, NoQueries, "ok")

InitLabels == InitChannels

NextLabels ==
    \/ \E org \in OrgIDs, name \in {NameUnder, NameA}, isDefault \in BOOLEAN :
          InsertReferencedChannel(org, name, isDefault)
    \/ \E orgID \in OrgIDs, notifications \in Notifications :
          MigrateReferences(orgID, notifications)
    \/ SetupSucceeds

SpecLabels == InitLabels /\ [][NextLabels]_vars

-----------------------------------------------------------------------------
(* The repeat intervals of the routes (send reminders of the channels) *)

MaxReminderChannels == 3

\* The frequencies of the reminders of a channel, in hours: below and above the
\* disabled repeat interval.
ReminderFrequencies == {1, 2, DisabledRepeatInterval + 264}

\* A channel of org 1 with a reminder setting is added to alert_notification.
InsertReminderChannel(isDefault, sendReminder, frequency) ==
    /\ pc = "start"
    /\ Len(alert_notification) < MaxReminderChannels
    /\ alert_notification' =
          Append(alert_notification,
                 AlertNotification(Len(alert_notification) + 1, 1,
                                   UidOf(Len(alert_notification) + 1),
                                   <<"n", ByteOrder[5 + Len(alert_notification) + 1]>>,
                                   "email", isDefault, sendReminder, frequency))
    /\ UNCHANGED <<rulesPerOrg, amConfigPerOrg, pc>>
    /\ UNCHANGED ruleVars
    /\ UNCHANGED serviceVars
    /\ UNCHANGED translatorVars

InitReminders == InitChannels

NextReminders ==
    \/ \E isDefault \in BOOLEAN, sendReminder \in BOOLEAN, frequency \in ReminderFrequencies :
          InsertReminderChannel(isDefault, sendReminder, frequency)
    \/ SetupSucceeds

SpecReminders == InitReminders /\ [][NextReminders]_vars

-----------------------------------------------------------------------------
(* The end of Exec when a call of it fails *)

\* The rules of a set of orgs.
RulesOfOrgs(rules, orgs) == SelectSeq(rules, LAMBDA ar : ar.OrgID \in orgs)

\* Exec after InsertAlertRules failed, that writes the configurations all the same.
insertRulesFailedButWriting(st, inserted, err) ==
    [exec |-> [st.exec EXCEPT !.err = err],
     alert_rule |-> inserted,
     alert_configuration |->
         st.alert_configuration
             \cup {[OrgID |-> o, config |-> st.amConfigPerOrg[o]] : o \in DOMAIN st.amConfigPerOrg},
     returned |-> TRUE]

\* Exec returns the error of insertRules: the rules of the orgs that were ranged
\* over before are inserted, and no configuration is written.
insertRulesFailed(st, inserted, err) ==
    [exec |-> [st.exec EXCEPT !.err = err],
     alert_rule |-> inserted,
     alert_configuration |-> st.alert_configuration,
     returned |-> TRUE]

\* insertRules returns the error of InsertAlertRules for the rules of an org, after
\* the rules of the orgs of `done` were inserted. The rules are renamed org by org
\* before they are handed to InsertAlertRules: those of the orgs of `done` and of
\* the org whose insert fails are renamed, those of the orgs that were not ranged
\* over keep their titles.
insertRulesFails(order, done) ==
    /\ pc = "configured"
    /\ done \subseteq OrgsWithRules(rulesPerOrg)
    /\ \E failing \in OrgsWithRules(rulesPerOrg) \ done :
          LET ranged == SelectSeq(order, LAMBDA i : rulesPerOrg[i].OrgID \in done \cup {failing})
              failed(renamed) ==
                  LET st == insertRulesFailed([exec |-> exec, amConfigPerOrg |-> amConfigPerOrg,
                                               alert_configuration |-> ua.alert_configuration],
                                              RulesOfOrgs(renamed, done),
                                              PlainError("insertRules"))
                  IN  /\ rulesPerOrg' = renamed
                      /\ alert_rule' = st.alert_rule
                      /\ ua' = [ua EXCEPT !.alert_configuration = st.alert_configuration]
                      /\ exec' = st.exec
          IN  failed(insertRulesLoop(ranged, rulesPerOrg, <<>>))
    /\ pc' = "returned"
    /\ UNCHANGED <<alert_notification, dashAlerts, titleDeduplicatorForFolder, generated,
                   amConfigPerOrg, silences>>
    /\ UNCHANGED <<alertTable, dashboard, dashboardsBefore, orgState, migrated>>
    /\ UNCHANGED <<translated, uids>>

\* writeAlertmanagerConfig returns an error for the configuration of an org, after
\* the configurations of the orgs of `done` were written.
writeAlertmanagerConfigFails(done) ==
    /\ pc = "inserted"
    /\ done \subseteq DOMAIN amConfigPerOrg
    /\ done # DOMAIN amConfigPerOrg
    /\ ua' = [ua EXCEPT !.alert_configuration =
                 @ \cup {[OrgID |-> o, config |-> amConfigPerOrg[o]] : o \in done}]
    /\ exec' = [exec EXCEPT !.err = PlainError("writeAlertmanagerConfig")]
    /\ pc' = "returned"
    /\ UNCHANGED <<alert_notification, rulesPerOrg, amConfigPerOrg>>
    /\ UNCHANGED ruleVars
    /\ UNCHANGED <<alertTable, dashboard, dashboardsBefore, orgState, migrated>>
    /\ UNCHANGED <<translated, uids>>

\* The settings of a slack channel with a url that is to be encrypted.
UrlSettings == [k \in {"url"} |-> JsonString("p")]

\* A slack channel of org 2 is added to alert_notification before Exec runs.
InsertSecondOrgChannel(isDefault) ==
    /\ pc = "start"
    /\ dashAlerts = <<>>
    /\ Len(alert_notification) < MaxChannels
    /\ \A i \in 1..Len(alert_notification) :
          ~(alert_notification[i].OrgID = 2 /\ alert_notification[i].Name = NameA)
    /\ alert_notification' =
          Append(alert_notification,
                 [AlertNotification(Len(alert_notification) + 1, 2,
                                    UidOf(Len(alert_notification) + 1), NameA, "slack",
                                    isDefault, FALSE, 0)
                     EXCEPT !.Settings = UrlSettings])
    /\ UNCHANGED <<rulesPerOrg, amConfigPerOrg, pc>>
    /\ UNCHANGED ruleVars
    /\ UNCHANGED serviceVars
    /\ UNCHANGED translatorVars

\* The silences files are written and setupAlertmanagerConfigs is called, and a call
\* fails: the write of a silences file, or in setupAlertmanagerConfigs the channels
\* cannot be loaded, the encryption service fails or the validation rejects the
\* notifiers of a type.
SetupFails ==
    \E failing \in SUBSET OrgIDs, loads \in BOOLEAN, order \in OrdersOf(OrgsWithChannels),
       encrypts \in BOOLEAN, rejected \in {{}, {"email"}, {"slack"}} :
        /\ ~(failing = {} /\ loads /\ encrypts /\ rejected = {})
        /\ SetupAlertmanagerConfigs(failing, loads, order, encrypts, rejected)

NextPersist ==
    \/ NextExec
    \/ \E isDefault \in BOOLEAN : InsertSecondOrgChannel(isDefault)
    \/ SetupFails
    \/ /\ pc = "configured"
       /\ \E order \in Orders(Len(rulesPerOrg)), done \in SUBSET OrgIDs :
             insertRulesFails(order, done)
    \/ \E done \in SUBSET OrgIDs : writeAlertmanagerConfigFails(done)

SpecPersist == InitExec /\ [][NextPersist]_vars

-----------------------------------------------------------------------------
(* The settings of a channel that are transcoded *)

\* The channel types, keys and values of this part.
SettingsTypes == {"slack", "line", "email"}
SettingsKeys == {"url", "token", "recipient"}
PlainValues == {JsonString(""), JsonString("p"), JsonNumber("7")}
SecureValues == {Encrypt(""), Encrypt("s")}

SettingsObjects == UNION {[keys -> PlainValues] : keys \in SUBSET SettingsKeys}
SecureJsonData == UNION {[keys -> SecureValues] : keys \in SUBSET SettingsKeys}

\* The settings of a channel are transcoded.
MigrateSettingsToSecureSettings(chanType, settings, secureSettings, encrypts) ==
    /\ translated.pc = "idle"
    /\ translated' =
          [pc |-> "settings", chanType |-> chanType, settings |-> settings,
           secureSettings |-> secureSettings,
           result |-> migrateSettingsToSecureSettings(chanType, settings, secureSettings,
                                                      encrypts)]
    /\ UNCHANGED <<exec, uids>>
    /\ UNCHANGED migrationVars

InitSettings == InitChannels

NextSettings ==
    /\ translated.pc = "idle"
    /\ \E chanType \in SettingsTypes, settings \in SettingsObjects,
          secureSettings \in SecureJsonData, encrypts \in BOOLEAN :
          MigrateSettingsToSecureSettings(chanType, settings, secureSettings, encrypts)

SpecSettings == InitSettings /\ [][NextSettings]_vars

-----------------------------------------------------------------------------
(* Properties of the receiver and route builder *)

\* The channels of org o that the migration reads (discontinued types are skipped),
\* as a set and in the order of the table.
ChannelsOfOrg(o) ==
    {alert_notification[i] : i \in {j \in 1..Len(alert_notification) :
        /\ alert_notification[j].OrgID = o
        /\ alert_notification[j].Type \notin DiscontinuedTypes}}

ChannelSeqOfOrg(o) ==
    SelectSeq(alert_notification, LAMBDA c : c.OrgID = o /\ c.Type \notin DiscontinuedTypes)

\* The channels of its org a rule's references resolve to.
ResolvedChannels(ar) ==
    {c \in ChannelsOfOrg(ar.OrgID) : ByID(c.ID) \in ar.channelUids \/ ByUID(c.UID) \in ar.channelUids}

\* The name, in the configuration of org o, of the receiver made for channel c: the
\* receivers of the channels come first, in the order of the channels.
ReceiverNamesInConfig(o, c) ==
    {amConfigPerOrg[o].Receivers[k].Name :
        k \in {j \in 1..Len(ChannelSeqOfOrg(o)) : ChannelSeqOfOrg(o)[j].ID = c.ID}}

HasContactLabel(ar) == ContactLabel \in DOMAIN ar.Labels

\* C1: once the configurations are built, no two receivers of one org's
\* configuration have the same name.
C1_ReceiverNamesUnique ==
    pc = "configured" =>
        \A o \in DOMAIN amConfigPerOrg :
            \A i, j \in 1..Len(amConfigPerOrg[o].Receivers) :
                i # j => amConfigPerOrg[o].Receivers[i].Name # amConfigPerOrg[o].Receivers[j].Name

\* C4 as claimed: every org for which a rule is migrated has a configuration with a
\* root route.
C4_RootRouteForEveryRuleOrg ==
    pc = "configured" =>
        \A i \in 1..Len(rulesPerOrg) :
            /\ rulesPerOrg[i].OrgID \in DOMAIN amConfigPerOrg
            /\ Len(amConfigPerOrg[rulesPerOrg[i].OrgID].Route) = 1

\* C4 as amended: exactly the orgs with a channel of a type still supported get a
\* configuration, and every configuration produced has a root route.
C4_RootRouteForOrgsWithChannels ==
    pc = "configured" =>
        \A o \in OrgIDs :
            /\ o \in DOMAIN amConfigPerOrg <=> ChannelsOfOrg(o) # {}
            /\ o \in DOMAIN amConfigPerOrg => Len(amConfigPerOrg[o].Route) = 1

\* A rule was migrated for an org without channels while another org got its
\* configuration with a root route.
C4_Witness ==
    /\ pc = "configured"
    /\ \E i \in 1..Len(rulesPerOrg) : rulesPerOrg[i].OrgID \notin DOMAIN amConfigPerOrg
    /\ \E o \in DOMAIN amConfigPerOrg : Len(amConfigPerOrg[o].Route) = 1

\* C8: a rule all of whose references resolve to default channels of its org has no
\* contact label.
C8_NoLabelWhenOnlyDefaultChannels ==
    pc = "configured" =>
        \A i \in 1..Len(rulesPerOrg) :
            LET ar == rulesPerOrg[i]
            IN  (/\ ar.channelUids # {}
                 /\ \A k \in ar.channelUids :
                       \E c \in ResolvedChannels(ar) : (k = ByID(c.ID) \/ k = ByUID(c.UID)) /\ c.IsDefault
                 /\ \A c \in ResolvedChannels(ar) : c.IsDefault)
                => ~HasContactLabel(ar)

\* C9: the contact label of a rule that references a channel that is not default
\* lists the receivers, as named in the configuration, of its resolved channels and
\* of the default channels of its org.
C9_LabelIsSpecificAndDefaultReceivers ==
    pc = "configured" =>
        \A i \in 1..Len(rulesPerOrg) :
            LET ar == rulesPerOrg[i]
                expected == UNION {ReceiverNamesInConfig(ar.OrgID, c) :
                                      c \in ResolvedChannels(ar) \cup
                                            {d \in ChannelsOfOrg(ar.OrgID) : d.IsDefault}}
            IN  (\E c \in ResolvedChannels(ar) : ~c.IsDefault)
                => /\ HasContactLabel(ar)
                   /\ ar.Labels[ContactLabel] = contactListToString(expected)

\* C10: a rule built from an alert without channel references has no contact label.
C10_NoLabelWithoutReferences ==
    pc = "configured" =>
        \A i \in 1..Len(rulesPerOrg) :
            dashAlerts[rulesPerOrg[i].alertId].Settings.Notifications = <<>>
                => ~HasContactLabel(rulesPerOrg[i])

\* A rule without references went through the configuration of an org that has a
\* default channel and another channel.
C10_Witness ==
    /\ pc = "configured"
    /\ \E i \in 1..Len(rulesPerOrg) :
          /\ dashAlerts[rulesPerOrg[i].alertId].Settings.Notifications = <<>>
          /\ rulesPerOrg[i].channelUids = {}
          /\ \E c, d \in ChannelsOfOrg(rulesPerOrg[i].OrgID) : c.IsDefault /\ ~d.IsDefault

\* C19: the receiver of the root route is a receiver of the configuration: without
\* default channels the placeholder receiver without notifiers; with one default
\* channel the receiver made for that channel, and no receiver is added; with
\* several default channels a receiver of its own with one notifier for each.
C19_RootReceiverIsInTheConfiguration ==
    pc = "configured" =>
        \A o \in DOMAIN amConfigPerOrg :
            Len(amConfigPerOrg[o].Route) = 1 =>
                LET cfg == amConfigPerOrg[o]
                    root == cfg.Route[1]
                    defaults == SelectSeq(ChannelSeqOfOrg(o), LAMBDA c : c.IsDefault)
                    named == {i \in 1..Len(cfg.Receivers) : cfg.Receivers[i].Name = root.Receiver}
                IN  /\ named # {}
                    /\ Len(defaults) = 0 =>
                          /\ root.Receiver = defaultReceiverName
                          /\ \E i \in named : cfg.Receivers[i].GrafanaManagedReceivers = <<>>
                    /\ Len(defaults) = 1 =>
                          /\ root.Receiver \in ReceiverNamesInConfig(o, defaults[1])
                          /\ Len(cfg.Receivers) = Len(ChannelSeqOfOrg(o))
                    /\ Len(defaults) > 1 =>
                          /\ root.Receiver = defaultReceiverName
                          /\ \E i \in named :
                                LET notifiers == cfg.Receivers[i].GrafanaManagedReceivers
                                IN  /\ Len(notifiers) = Len(defaults)
                                    /\ \A k \in 1..Len(defaults) :
                                          /\ notifiers[k].Name = defaults[k].Name
                                          /\ notifiers[k].Type = defaults[k].Type

\* The names a contact label can have been built from: the names of the receivers
\* and of the channels of the org.
LabelNames(o) ==
    {amConfigPerOrg[o].Receivers[i].Name : i \in 1..Len(amConfigPerOrg[o].Receivers)}
        \cup {c.Name : c \in ChannelsOfOrg(o)}

\* C20: for a rule whose contact label was built from the set S of receiver names
\* and a route of a receiver r of the same org, the matcher of the route matches
\* the label if and only if r is in S; and every such route continues.
C20_RouteMatchesExactlyItsReceiver ==
    pc = "configured" =>
        \A i \in 1..Len(rulesPerOrg) :
            LET ar == rulesPerOrg[i]
                o == ar.OrgID
            IN  (o \in DOMAIN amConfigPerOrg /\ HasContactLabel(ar)) =>
                    \A S \in SUBSET LabelNames(o) :
                        ar.Labels[ContactLabel] = contactListToString(S) =>
                            \A k \in 1..Len(amConfigPerOrg[o].Route[1].Routes) :
                                LET route == amConfigPerOrg[o].Route[1].Routes[k]
                                IN  /\ route.Continue
                                    /\ MatcherMatches(route.ObjectMatchers[1],
                                                      ar.Labels[ContactLabel])
                                          <=> route.Receiver \in S

-----------------------------------------------------------------------------
(* Properties of the repeat intervals *)

Min(S) == CHOOSE x \in S : \A y \in S : x <= y

\* The frequencies of the default channels of org o that send reminders.
DefaultReminders(o) ==
    {c.Frequency : c \in {d \in ChannelsOfOrg(o) : d.IsDefault /\ d.SendReminder}}

\* The routes of the receivers repeat with the frequency of their channel when it
\* sends reminders, and with the disabled interval otherwise.
ReceiverRoutesRepeat(o) ==
    LET channels == ChannelSeqOfOrg(o)
        routes == amConfigPerOrg[o].Route[1].Routes
    IN  /\ Len(routes) = Len(channels)
        /\ \A k \in 1..Len(routes) :
              routes[k].RepeatInterval =
                  << IF channels[k].SendReminder THEN channels[k].Frequency
                     ELSE DisabledRepeatInterval >>

\* C24: the root route of an org with default channels repeats with the lowest
\* frequency of its default channels that send reminders, whatever the
\* frequencies are, and with the disabled interval of one year when none of them
\* sends reminders; the routes of the receivers repeat with the frequency of their
\* channel or with the disabled interval.
C24_RootRepeatsWithLowestReminder ==
    pc = "configured" =>
        \A o \in DOMAIN amConfigPerOrg :
            Len(amConfigPerOrg[o].Route) = 1 =>
                /\ ReceiverRoutesRepeat(o)
                /\ (\E c \in ChannelsOfOrg(o) : c.IsDefault) =>
                      amConfigPerOrg[o].Route[1].RepeatInterval =
                          << IF DefaultReminders(o) = {} THEN DisabledRepeatInterval
                             ELSE Min(DefaultReminders(o)) >>

-----------------------------------------------------------------------------
(* Properties of the rule translator *)

SameNamespace(r1, r2) == r1.OrgID = r2.OrgID /\ r1.NamespaceUID = r2.NamespaceUID

TitlesUnique(rules) ==
    \A i, j \in 1..Len(rules) :
        (i # j /\ SameNamespace(rules[i], rules[j])) => rules[i].Title # rules[j].Title

\* The legacy alert a rule was built from.
AlertOfRule(ar) == dashAlerts[ar.alertId]

\* The i-th rule of the run found the truncated name of its alert taken in its folder.
NameWasTaken(i) ==
    \E j \in 1..(i - 1) :
        /\ SameNamespace(rulesPerOrg[j], rulesPerOrg[i])
        /\ rulesPerOrg[j].Title = truncateRuleName(AlertOfRule(rulesPerOrg[i]).Name)

\* C2: no two rules of one org with the same namespace uid have the same title, from
\* the moment migrateAlert has built them to the moment they are handed to
\* InsertAlertRules.
C2_TitlesUniqueInNamespace ==
    /\ TitlesUnique(rulesPerOrg)
    /\ pc = "inserted" => TitlesUnique(alert_rule)

\* Three alerts of one org and folder with names that are equal once truncated have
\* been persisted.
C2_Witness ==
    /\ pc = "inserted"
    /\ Len(alert_rule) = 3
    /\ \A i \in 1..3 :
          /\ SameNamespace(alert_rule[i], alert_rule[1])
          /\ truncateRuleName(AlertOfRule(alert_rule[i]).Name)
                = truncateRuleName(AlertOfRule(alert_rule[1]).Name)

\* C3 as claimed: a rule whose truncated name was taken in its folder is titled with
\* the truncated name, an underscore and the rule's own uid, and no title is longer
\* than the maximum title length.
C3_TitleIsNameAndRuleUID ==
    /\ \A i \in 1..Len(rulesPerOrg) :
          /\ NameWasTaken(i) =>
                rulesPerOrg[i].Title =
                    truncateRuleName(AlertOfRule(rulesPerOrg[i]).Name)
                        \o <<"_">> \o rulesPerOrg[i].UID
          /\ Len(rulesPerOrg[i].Title) <= AlertDefinitionMaxTitleLength
    /\ \A i \in 1..Len(alert_rule) : Len(alert_rule[i].Title) <= AlertDefinitionMaxTitleLength

\* C3 as amended: a rule of migrateAlert whose truncated name was taken in its folder
\* is titled with the truncated name, cut so that the suffix fits, an underscore and
\* a short uid generated for the title, which is not the rule's uid; any other rule
\* is titled with the truncated name; no title, built or persisted, is longer than
\* the maximum, and insertRules changes no title.
C3_TitleIsCutNameAndFreshUID ==
    /\ \A i \in 1..Len(rulesPerOrg) :
          LET ar == rulesPerOrg[i]
              name == truncateRuleName(AlertOfRule(ar).Name)
          IN  /\ NameWasTaken(i) =>
                    \E k \in 1..generated :
                        /\ ShortUID(k) # ar.UID
                        /\ \A j \in 1..Len(rulesPerOrg) : rulesPerOrg[j].UID # ShortUID(k)
                        /\ LET room == AlertDefinitionMaxTitleLength - 1 - Len(ShortUID(k))
                           IN  ar.Title = SubSeq(name, 1, IF Len(name) > room THEN room ELSE Len(name))
                                              \o <<"_">> \o ShortUID(k)
              /\ ~NameWasTaken(i) => ar.Title = name
              /\ Len(ar.Title) <= AlertDefinitionMaxTitleLength
    /\ \A i \in 1..Len(alert_rule) : Len(alert_rule[i].Title) <= AlertDefinitionMaxTitleLength
    /\ pc = "inserted" => alert_rule = rulesPerOrg

\* A rule whose name had to be cut to take the suffix has been persisted next to the
\* rule that took the name first.
C3_Witness ==
    /\ pc = "inserted"
    /\ \E i \in 1..Len(alert_rule) :
          /\ NameWasTaken(i)
          /\ Len(AlertOfRule(alert_rule[i]).Name) > AlertDefinitionMaxTitleLength
          /\ Len(alert_rule[i].Title) = AlertDefinitionMaxTitleLength

\* The group migrateAlert names for the rule of a legacy alert.
GroupOfAlert(da) == InfoOf(da).DashboardName \o <<" ", "-", " ">> \o Itoa(da.PanelID)

\* C11: every persisted rule is the only rule of its group: the group is named
\* "<dashboard name> - <panel id>" with index 1, and no two rules persisted for the
\* same org and namespace share a group, whatever the dashboards and alerts are.
C11_OneRulePerGroup ==
    /\ \A i \in 1..Len(alert_rule) :
          /\ alert_rule[i].RuleGroup = GroupOfAlert(AlertOfRule(alert_rule[i]))
          /\ alert_rule[i].RuleGroupIndex = 1
    /\ \A i, j \in 1..Len(alert_rule) :
          (i # j /\ SameNamespace(alert_rule[i], alert_rule[j]))
             => alert_rule[i].RuleGroup # alert_rule[j].RuleGroup

-----------------------------------------------------------------------------
(* Properties of the migration service *)

RowsOfOrg(tables, org) ==
    {v \in tables.alert_rule_version : v.RuleOrgID = org}
        \cup {c \in tables.alert_configuration : c.OrgID = org}
        \cup {c \in tables.ngalert_configuration : c.OrgID = org}
        \cup {v \in tables.alert_instance : v.RuleOrgID = org}

CreatedFoldersOf(org) ==
    {orgState[org].CreatedFolders[i] : i \in 1..Len(orgState[org].CreatedFolders)}

\* What RevertOrg(org) leaves behind.
RevertEffect(org) ==
    /\ RulesOfOrg(alert_rule', org) = <<>>
    /\ RowsOfOrg(ua', org) = {}
    /\ \A uid \in CreatedFoldersOf(org) : FolderRow(org, uid) \notin dashboard'
    /\ dashboard \ dashboard' = {FolderRow(org, uid) : uid \in CreatedFoldersOf(org)} \cap dashboard
    /\ dashboard' \subseteq dashboard
    /\ \A o \in OrgIDs \ {org} :
          /\ RulesOfOrg(alert_rule', o) = RulesOfOrg(alert_rule, o)
          /\ RowsOfOrg(ua', o) = RowsOfOrg(ua, o)

\* What cleanupDashboardAlerts of the dashboard upgrade d may delete from the
\* dashboard table.
CleanupEffect(org, d) ==
    /\ dashboard' \subseteq dashboard
    /\ \A row \in dashboard \ dashboard' :
          /\ row = FolderRow(org, d.NewFolderUID)
          /\ row.UID \in CreatedFoldersOf(org)
          /\ row.UID # d.FolderUID

\* C5: RevertOrg leaves the org without alert rules, rule versions, alertmanager
\* configuration, admin configuration and alert instances, deletes the folders
\* recorded as created for the org and nothing else, and leaves the rows of the other
\* orgs alone; every dashboard and folder that existed before the migration still
\* exists; cleanupDashboardAlerts deletes a folder only if it is recorded as created
\* and is not the folder of the dashboard, and nothing for nil.
C5_RevertRemovesWhatMigrationCreated ==
    /\ [](dashboardsBefore \subseteq dashboard)
    /\ [][ /\ \A org \in OrgIDs : RevertOrg(org) => RevertEffect(org)
           /\ \A org \in OrgIDs :
                 /\ CleanupDashboardAlerts(org, <<>>, "") => dashboard' = dashboard
                 /\ \A d \in orgState[org].MigratedDashboards :
                       CleanupDashboardAlerts(org, <<d>>, "") => CleanupEffect(org, d) ]_vars

\* Org 1 was migrated with an alert of the dashboard in the general folder, for which
\* the General Alerting folder was created, and has been reverted: the folder and the
\* rows of the org are gone.
C5_Witness ==
    /\ Len(alertTable) = 1
    /\ alertTable[1].alert.OrgID = 1
    /\ alertTable[1].alert.DashboardID = 8
    /\ alertTable[1].outcome = "ok"
    /\ generated >= 1
    /\ FolderRow(1, GeneralAlertingUID) \notin dashboardsBefore
    /\ migrated[anyOrg]
    /\ ~migrated[1]
    /\ FolderRow(1, GeneralAlertingUID) \notin dashboard
    /\ RulesOfOrg(alert_rule, 1) = <<>>
    /\ RowsOfOrg(ua, 1) = {}

\* C6: RevertOrg(org) resets the migrated flag of org and changes no other migrated
\* flag: after a run, the flag of anyOrg is still set.
C6_RevertOrgResetsOnlyTheOrgFlag ==
    [][ \A org \in OrgIDs :
           RevertOrg(org) => migrated' = [migrated EXCEPT ![org] = FALSE] ]_vars

\* Org 1 has been reverted after a run: its flag is reset, those of anyOrg and of
\* org 2 are set.
C6_Witness ==
    /\ migrated[anyOrg]
    /\ ~migrated[1]
    /\ migrated[2]

\* What Run(enabled, forceMigration) does.
RunEffect(enabled, forceMigration) ==
    /\ ~enabled =>
          /\ migrated' = [migrated EXCEPT ![anyOrg] = FALSE]
          /\ UNCHANGED <<alert_rule, ua, dashboard, orgState>>
    /\ enabled => migrated'[anyOrg]
    /\ (enabled /\ ~forceMigration) =>
          \A org \in OrgIDs :
              migrated[org] =>
                  /\ migrated'[org]
                  /\ RulesOfOrg(alert_rule', org) = RulesOfOrg(alert_rule, org)
    /\ (enabled /\ forceMigration) =>
          \A org \in OrgIDs :
              LET rules == RulesOfOrg(alert_rule', org)
                  alerts == SelectSeq(alertTable,
                                      LAMBDA a : a.alert.OrgID = org /\ a.outcome = "ok")
              IN  /\ migrated'[org]
                  /\ Len(rules) = Len(alerts)
                  /\ \A i \in 1..Len(alerts) :
                        rules[i].Annotations["__alertId__"] = ToString(alerts[i].alert.ID)
                  /\ \A i \in 1..Len(rules) :
                        \A j \in 1..Len(alert_rule) : rules[i].UID # alert_rule[j].UID

-----------------------------------------------------------------------------
(* Properties of the created folders of the state *)

\* The uids of the folders of the dashboard table of the service.
ServiceFolderUIDs ==
    {GeneralAlertingUID} \cup {f.UID : f \in Folders}
        \cup {AlertFolderUID(d) : d \in Dashboards \cup OtherDashboards}

\* C29: every folder that the migration created and that still exists is listed in
\* the created folders of the state of its org, also after cleanupDashboardAlerts
\* returned an error, so that a revert still removes it.
C29_CreatedFoldersAreRemembered ==
    \A o \in OrgIDs, uid \in ServiceFolderUIDs :
        FolderRow(o, uid) \in dashboard \ dashboardsBefore =>
            \E i \in 1..Len(orgState[o].CreatedFolders) : orgState[o].CreatedFolders[i] = uid

-----------------------------------------------------------------------------
(* Properties of the translation of settings and queries *)

\* The run has added a silence with this comment for the rule ar.
HasSilence(ar, comment) ==
    \E i \in 1..Len(silences) :
        silences[i].Comment = comment /\ silences[i].rule = ar.UID

\* The errors migrateAlert returns for the calls it makes before it looks at the
\* settings of the states.
EarlierErrors ==
    {Wrap("get settings", PlainError("json.Marshal")),
     Wrap("parse settings", PlainError("json.Unmarshal")),
     Wrap("transform conditions", PlainError("transConditions"))}

\* The table of transNoData, and the alert is migrated unless a call made before the
\* settings of the states are looked at fails.
NoDataTable ==
    /\ (translated.pc = "failed" /\ translated.cond = NoQueries) =>
          translated.res.err \in EarlierErrors
    /\ translated.pc = "migrated" =>
          LET s == translated.alert.Settings.NoDataState
              ar == translated.res.ar
          IN  /\ s = "ok" => ar.NoDataState = "OK"
              /\ s \in {"", "no_data"} => ar.NoDataState = "NoData"
              /\ s = "alerting" => ar.NoDataState = "Alerting"
              /\ s = "keep_state" => ar.NoDataState = "NoData"
              /\ s \notin {"ok", "", "no_data", "alerting", "keep_state"} =>
                    ar.NoDataState = "NoData"

\* C12 as it is stated: the legacy no-data setting "ok" becomes OK, "" and "no_data"
\* become NoData, "alerting" becomes Alerting, "keep_state" becomes NoData and every
\* other string becomes NoData, the alert being migrated all the same; the rule has
\* a no-data silence exactly when the legacy value is "keep_state".
C12_NoDataSilenceExactlyWhenKeepState ==
    /\ NoDataTable
    /\ translated.pc = "migrated" =>
          (HasSilence(translated.res.ar, "NoData")
              <=> translated.alert.Settings.NoDataState = "keep_state")

\* C12: the legacy no-data setting "ok" becomes OK, "" and "no_data" become NoData,
\* "alerting" becomes Alerting, "keep_state" becomes NoData and every other string
\* becomes NoData, the alert being migrated all the same; the creation of a no-data
\* silence is asked for exactly when the legacy value is "keep_state", and the rule
\* has the silence unless its creation fails, which is logged and the alert is
\* migrated all the same.
C12_NoDataTranslation ==
    /\ NoDataTable
    /\ translated.pc = "migrated" =>
          LET s == translated.alert.Settings.NoDataState
              ar == translated.res.ar
              logged == "failed to create silence for NoData" \in translated.res.logged
          IN  /\ (HasSilence(ar, "NoData") \/ logged) <=> s = "keep_state"
              /\ ~(HasSilence(ar, "NoData") /\ logged)

\* The creation of the no-data silence of an alert that keeps its state failed: the
\* alert was migrated to a rule with the state NoData and without a silence, and the
\* failure was logged.
C12_Witness ==
    /\ translated.pc = "migrated"
    /\ translated.alert.Settings.NoDataState = "keep_state"
    /\ translated.res.ar.NoDataState = "NoData"
    /\ ~HasSilence(translated.res.ar, "NoData")
    /\ translated.res.logged = {"failed to create silence for NoData"}
    /\ rulesPerOrg = <<WithReferences(translated.res.ar, translated.alert, {})>>

\* The table of transExecErr, and the alert is migrated unless a call made before
\* the settings of the states are looked at fails.
ExecErrTable ==
    /\ (translated.pc = "failed" /\ translated.cond = NoQueries) =>
          translated.res.err.Err \in {e.Err : e \in EarlierErrors}
    /\ translated.pc = "migrated" =>
          LET s == translated.alert.Settings.ExecutionErrorState
              ar == translated.res.ar
          IN  /\ s \in {"", "alerting"} => ar.ExecErrState = "Alerting"
              /\ s = "keep_state" => ar.ExecErrState = "Error"
              /\ s = "ok" => ar.ExecErrState = "OK"
              /\ s \notin {"", "alerting", "keep_state", "ok"} => ar.ExecErrState = "Error"

\* C13 as it is stated: the legacy execution-error setting "" and "alerting" become
\* Alerting, "keep_state" becomes Error, "ok" becomes OK and every other string
\* becomes Error, the alert being migrated all the same; the rule has an error
\* silence exactly when the legacy value is "keep_state".
C13_ErrorSilenceExactlyWhenKeepState ==
    /\ ExecErrTable
    /\ translated.pc = "migrated" =>
          (HasSilence(translated.res.ar, "Error")
              <=> translated.alert.Settings.ExecutionErrorState = "keep_state")

\* C13: the legacy execution-error setting "" and "alerting" become Alerting,
\* "keep_state" becomes Error, "ok" becomes OK and every other string becomes Error,
\* the alert being migrated all the same; the creation of an error silence is asked
\* for exactly when the legacy value is "keep_state", and the rule has the silence
\* unless its creation fails, which is logged and the alert is migrated all the
\* same.
C13_ExecErrTranslation ==
    /\ ExecErrTable
    /\ translated.pc = "migrated" =>
          LET s == translated.alert.Settings.ExecutionErrorState
              ar == translated.res.ar
              logged == "failed to create silence for Error" \in translated.res.logged
          IN  /\ (HasSilence(ar, "Error") \/ logged) <=> s = "keep_state"
              /\ ~(HasSilence(ar, "Error") /\ logged)

\* The creation of the error silence of an alert that keeps its state failed: the
\* alert was migrated to a rule with the state Error and without a silence, and the
\* failure was logged.
C13_Witness ==
    /\ translated.pc = "migrated"
    /\ translated.alert.Settings.ExecutionErrorState = "keep_state"
    /\ translated.res.ar.ExecErrState = "Error"
    /\ ~HasSilence(translated.res.ar, "Error")
    /\ "failed to create silence for Error" \in translated.res.logged
    /\ Len(rulesPerOrg) = 1

\* The keys of a query model and what is under them.
Keys(d) == DOMAIN d.Model.fields

\* The instant and range flags of a query model, as far as it has them.
Flags(d) == [k \in {"instant", "range"} \cap Keys(d) |-> d.Model.fields[k]]

HasFlag(d, key, raw) == key \in Keys(d) /\ d.Model.fields[key] = raw

IsBothTypePrometheus(d) ==
    /\ d.DatasourceUID # expressionDatasourceUID
    /\ HasFlag(d, "datasource", "{\"type\":\"prometheus\"}")
    /\ HasFlag(d, "instant", "true")
    /\ HasFlag(d, "range", "true")

\* C14: rewriting changes the instant and range flags of a query only when it is no
\* expression, its datasource type is "prometheus" and both flags are true, and then
\* the result has instant=false and range=true; every other query keeps its flags.
C14_OnlyPrometheusBothBecomesRange ==
    translated.pc = "migrated" =>
        LET data == translated.cond.Data
            result == translated.res.ar.Data
        IN  /\ Len(result) = Len(data)
            /\ \A i \in 1..Len(data) :
                  IF IsBothTypePrometheus(data[i])
                  THEN HasFlag(result[i], "instant", "false") /\ HasFlag(result[i], "range", "true")
                  ELSE Flags(result[i]) = Flags(data[i])

\* A both-type Prometheus query became a range query next to a both-type query of
\* another datasource that kept its flags.
C14_Witness ==
    /\ translated.pc = "migrated"
    /\ \E i, j \in 1..Len(translated.cond.Data) :
          LET d == translated.cond.Data[j]
              r == translated.res.ar.Data
          IN  /\ IsBothTypePrometheus(translated.cond.Data[i])
              /\ HasFlag(r[i], "instant", "false")
              /\ d.DatasourceUID # expressionDatasourceUID
              /\ HasFlag(d, "datasource", "{\"type\":\"something\"}")
              /\ HasFlag(d, "instant", "true")
              /\ HasFlag(d, "range", "true")
              /\ HasFlag(r[j], "instant", "true")

\* What rewriting does to the keys hide, targetFull and target of a query model.
GraphiteRewritten(d, r) ==
    /\ "hide" \notin Keys(r)
    /\ "targetFull" \notin Keys(r)
    /\ IF "targetFull" \in Keys(d)
       THEN HasFlag(r, "target", d.Model.fields["targetFull"])
       ELSE /\ "target" \in Keys(r) <=> "target" \in Keys(d)
            /\ "target" \in Keys(d) => r.Model.fields["target"] = d.Model.fields["target"]

\* The keys in keys are in both models or in neither, with the same values.
KeysKept(d, r, keys) ==
    \A k \in keys :
        /\ k \in Keys(r) <=> k \in Keys(d)
        /\ k \in Keys(d) => r.Model.fields[k] = d.Model.fields[k]

OtherKeys(d, r) == (Keys(d) \cup Keys(r)) \ {"hide", "targetFull", "target"}

\* C15: after rewriting a query that is no expression, the keys hide and targetFull
\* are absent, target is the former targetFull if there was one and unchanged
\* otherwise, all other keys keep their values, and the queries keep their
\* number and order.
C15_AllOtherKeysKept ==
    translated.pc = "migrated" =>
        LET data == translated.cond.Data
            result == translated.res.ar.Data
        IN  /\ Len(result) = Len(data)
            /\ \A i \in 1..Len(data) :
                  LET d == data[i]
                      r == result[i]
                  IN  /\ r.RefID = d.RefID /\ r.DatasourceUID = d.DatasourceUID
                      /\ d.DatasourceUID # expressionDatasourceUID =>
                            GraphiteRewritten(d, r) /\ KeysKept(d, r, OtherKeys(d, r))

\* C15, as the code has it: the same, but the key instant of a both-type Prometheus
\* query does not keep its value: it becomes false.
C15_OtherKeysKeptButInstantOfBothType ==
    translated.pc = "migrated" =>
        LET data == translated.cond.Data
            result == translated.res.ar.Data
        IN  /\ Len(result) = Len(data)
            /\ \A i \in 1..Len(data) :
                  LET d == data[i]
                      r == result[i]
                  IN  /\ r.RefID = d.RefID /\ r.DatasourceUID = d.DatasourceUID
                      /\ d.DatasourceUID # expressionDatasourceUID =>
                            /\ GraphiteRewritten(d, r)
                            /\ KeysKept(d, r, OtherKeys(d, r) \ {"instant"})
                            /\ IF IsBothTypePrometheus(d)
                               THEN HasFlag(r, "instant", "false")
                               ELSE KeysKept(d, r, {"instant"})

\* A hidden query with a full target was rewritten after a query without one.
C15_Witness ==
    /\ translated.pc = "migrated"
    /\ Len(translated.cond.Data) = 2
    /\ "targetFull" \notin Keys(translated.cond.Data[1])
    /\ HasFlag(translated.cond.Data[1], "target", "\"half\"")
    /\ HasFlag(translated.res.ar.Data[1], "target", "\"half\"")
    /\ translated.cond.Data[2].DatasourceUID # expressionDatasourceUID
    /\ HasFlag(translated.cond.Data[2], "hide", "true")
    /\ HasFlag(translated.cond.Data[2], "targetFull", "\"full\"")
    /\ HasFlag(translated.cond.Data[2], "target", "\"half\"")
    /\ translated.res.ar.Data[2].Model.fields = [target |-> "\"full\""]

-----------------------------------------------------------------------------
(* Properties of the uidSet *)

\* uid is in the seen set, compared as the store compares.
Collides(s, uid) ==
    \E seen \in s.set : IF s.caseInsensitive THEN ToLower(seen) = ToLower(uid) ELSE seen = uid

\* What a call of generateUid that goes from uidSet s to uidSet t returns.
GenerateUidEffect(s, t, res) ==
    /\ Len(res.tried) \in 1..5
    /\ \A i \in 1..(Len(res.tried) - 1) : Collides(s, res.tried[i])
    /\ IF res.err
       THEN /\ Len(res.tried) = 5
            /\ Collides(s, res.tried[5])
            /\ t = s
       ELSE /\ res.uid = res.tried[Len(res.tried)]
            /\ ~Collides(s, res.uid)
            /\ Collides(t, res.uid)
            /\ t.set = s.set \cup {IF s.caseInsensitive THEN ToLower(res.uid) ELSE res.uid}
            /\ t.caseInsensitive = s.caseInsensitive

\* C16: generateUid makes at most five attempts; it returns a uid that was not in the
\* seen set, compared without case where the store compares so, and adds it to the
\* set; if five candidates collide it returns an error and leaves the set unchanged.
C16_GenerateUidIsBoundedAndUnique ==
    [][(uids.pc # "idle" /\ uids'.calls = uids.calls + 1)
           => GenerateUidEffect(uids.s, uids'.s, uids')]_vars

\* Five candidates collided with a seen set that compares without case, and the
\* call returned an error.
C16_Witness ==
    /\ uids.pc = "generated"
    /\ uids.err
    /\ Len(uids.tried) = 5
    /\ uids.s.caseInsensitive
    /\ \E i \in 1..5 : uids.tried[i] \notin uids.s.set

-----------------------------------------------------------------------------
(* Properties of Exec *)

\* C17: when Exec has returned an error for a legacy alert, no alert rule and no
\* alertmanager configuration has been persisted for any org, and none is
\* persisted afterwards.
C17_NothingPersistedAfterAnError ==
    exec.err.isError =>
        /\ pc = "returned"
        /\ alert_rule = <<>>
        /\ ua.alert_configuration = {}
        /\ ua.alert_rule_version = {}

\* Exec returned an error for the third alert after it had built the rules of two:
\* the rule of the alert could not be made, after a folder was created for it with
\* the permissions of its dashboard.
C17_Witness ==
    /\ exec.err.isError
    /\ exec.alert = 3
    /\ Len(rulesPerOrg) = 2
    /\ \E p \in exec.withACLOf :
          p[2] = dashAlerts[3].DashboardID /\ FolderRow(p[1].OrgID, p[1].UID) \in dashboard
    /\ \A i \in 1..2 : ExecDashboardByID(dashAlerts[i].DashboardID).HasACL = FALSE
    /\ alert_rule = <<>>

\* C18: every error Exec returns because of one legacy alert is a MigrationError
\* with the id of that alert.
C18_AlertErrorsAreMigrationErrors ==
    exec.err.isError =>
        /\ exec.err.isMigrationError
        /\ exec.err.AlertId = exec.alert

-----------------------------------------------------------------------------
(* Properties of the uids of the notifiers *)

\* A uid as seenUIDs of the run compares it.
Dedup(uid) == IF uids.s.caseInsensitive THEN ToLower(uid) ELSE uid

\* The notifiers of the configuration of org o in the order in which createNotifier
\* made them, each with the uid of its legacy channel: the notifiers of the
\* receivers of the channels, then those of the receiver of several default
\* channels.
NotifiersOfOrg(o) ==
    LET channels == ChannelSeqOfOrg(o)
        defaults == SelectSeq(channels, LAMBDA c : c.IsDefault)
        receivers == amConfigPerOrg[o].Receivers
    IN  [k \in 1..Len(channels) |->
            [UID |-> receivers[k].GrafanaManagedReceivers[1].UID,
             legacyUid |-> channels[k].UID]]
        \o (IF Len(defaults) > 1
            THEN [k \in 1..Len(defaults) |->
                     [UID |-> receivers[Len(channels) + 1].GrafanaManagedReceivers[k].UID,
                      legacyUid |-> defaults[k].UID]]
            ELSE <<>>)

\* The notifiers of the run, the orgs in the order the map was ranged over.
RECURSIVE NotifiersOfRun(_)
NotifiersOfRun(order) ==
    IF order = <<>> THEN <<>>
    ELSE NotifiersOfOrg(Head(order)) \o NotifiersOfRun(Tail(order))

\* C21: a notifier has the uid of its legacy channel only if that uid is not empty
\* and no notifier created before in the run has it, and a generated uid
\* otherwise; so the uids of the notifiers of one run are pairwise distinct, those
\* of the receiver of several default channels and of the channels of different orgs
\* with the same legacy uid included.
C21_NotifierUidsAreDistinct ==
    pc = "configured" =>
        LET notifiers == NotifiersOfRun(uids.order)
            UidsBefore(i) == {Dedup(notifiers[j].UID) : j \in 1..(i - 1)}
        IN  /\ \A i \in 1..Len(notifiers) :
                  LET n == notifiers[i]
                  IN  IF n.legacyUid # EmptyString /\ Dedup(n.legacyUid) \notin UidsBefore(i)
                      THEN n.UID = n.legacyUid
                      ELSE /\ n.UID # n.legacyUid
                           /\ \E k \in 1..generated : n.UID = ShortUID(k)
            /\ \A i, j \in 1..Len(notifiers) : i # j => notifiers[i].UID # notifiers[j].UID

-----------------------------------------------------------------------------
(* Properties of the channel references of a legacy alert *)

\* A reference resolves when the org has a channel with this id or with this uid.
Resolves(orgID, ui) ==
    \E i \in 1..Len(alert_notification) :
        /\ alert_notification[i].OrgID = orgID
        /\ IF ui.ID > 0 THEN alert_notification[i].ID = ui.ID
           ELSE ui.UID # EmptyString /\ alert_notification[i].UID = ui.UID

\* The uid of the channel a resolving reference refers to, and the key of the
\* reference in the map of the receivers.
ResolvedUid(orgID, ui) ==
    IF ui.ID > 0 THEN GetAlertNotificationUidWithId(alert_notification, orgID, ui.ID).uid
    ELSE ui.UID

KeyOf(ui) == IF ui.UID # EmptyString THEN ByUID(ui.UID) ELSE ByID(ui.ID)

\* The references of the migrated alert that resolve.
ResolvingReferences ==
    LET notifications == translated.alert.Settings.Notifications
    IN  {ui \in {notifications[i] : i \in 1..Len(notifications)} :
            Resolves(translated.alert.OrgID, ui)}

\* The alert is migrated without an error, and once the configurations are built
\* the contact list of its rule is the one of its resolving references alone.
ContactListOfResolvingReferences ==
    translated.pc # "idle" =>
        /\ translated.pc = "migrated"
        /\ pc = "configured" =>
              LET orgID == translated.alert.OrgID
                  channels == ChannelSeqOfOrg(orgID)
                  receivers == createReceivers(channels, NoUids.s, NextShortUIDs(0), TRUE).receivers
                  expected ==
                      filterReceiversForAlert({KeyOf(ui) : ui \in ResolvingReferences}, receivers,
                          defaultReceiversOf(SelectSeq(channels, LAMBDA c : c.IsDefault)))
                  ar == rulesPerOrg[1]
              IN  /\ HasContactLabel(ar) <=> expected # {}
                  /\ HasContactLabel(ar) => ar.Labels[ContactLabel] = contactListToString(expected)

\* C23: a reference of a legacy alert that does not resolve is dropped: the rule
\* gets a per-channel routing label for the channels of its resolving references
\* only, the contact list is the one of the resolving references alone, and the
\* alert is migrated without an error.
C23_UnresolvedReferencesAreDropped ==
    /\ ContactListOfResolvingReferences
    /\ translated.pc = "migrated" =>
          DOMAIN translated.res.ar.Labels =
              {UseLegacyChannelsLabel, getLabelForSilenceMatching(translated.res.ar.UID).n}
                  \cup {ContactLabelOf(ResolvedUid(translated.alert.OrgID, ui)) :
                           ui \in ResolvingReferences}

-----------------------------------------------------------------------------
(* Properties of the folders of the rules *)

DashboardOfRule(ar) == ExecDashboardByID(AlertOfRule(ar).DashboardID)

\* The folders that were created with a copy of the permissions of dashboard dash of
\* org o.
FoldersWithACLOf(o, dash) == {p[1] : p \in {q \in exec.withACLOf : q[1].OrgID = o /\ q[2] = dash.ID}}

\* C25: the folder of the rule of a legacy alert is, in this order: for a
\* dashboard with permissions of its own the one folder created in the run with a
\* copy of the permissions of that dashboard; for a dashboard with a folder id
\* whose folder exists that folder; otherwise the general folder of the org, which
\* is in the cache of the run since it was first obtained; and the folder of a
\* rule has a uid.
C25_FolderChosenInOrder ==
    /\ \A i \in 1..Len(rulesPerOrg) :
          LET ar == rulesPerOrg[i]
              o == ar.OrgID
              dash == DashboardOfRule(ar)
          IN  /\ ar.NamespaceUID # ""
              /\ IF dash.HasACL
                 THEN /\ Cardinality(FoldersWithACLOf(o, dash)) = 1
                      /\ \A f \in FoldersWithACLOf(o, dash) : f.UID = ar.NamespaceUID
                 ELSE IF dash.FolderID > 0 /\ FolderRow(o, dash.FolderUID) \in dashboardsBefore
                 THEN ar.NamespaceUID = dash.FolderUID
                 ELSE /\ o \in DOMAIN exec.generalFolderCache
                      /\ exec.generalFolderCache[o] = Folder(o, ar.NamespaceUID)
                      /\ ar.NamespaceUID = GeneralAlertingUID
    /\ \A o \in OrgIDs, dash \in ExecDashboards : Cardinality(FoldersWithACLOf(o, dash)) <= 1

\* C28: the folder of a rule is a folder of the org of the rule, also when
\* dashboards of several orgs have permissions of their own and the same title and
\* uid.
C28_FolderBelongsToTheOrgOfTheRule ==
    \A i \in 1..Len(rulesPerOrg) :
        FolderRow(rulesPerOrg[i].OrgID, rulesPerOrg[i].NamespaceUID) \in dashboard

-----------------------------------------------------------------------------
(* Properties of the order in which Exec persists *)

\* setupAlertmanagerConfigs has returned an error to Exec.
SetupFailed ==
    /\ uids.pc = "setup"
    /\ exec.err.isError
    /\ exec.err.Err \notin {"insertRules", "writeAlertmanagerConfig"}

\* The configurations of all orgs with channels are built, with a route for every
\* channel, and the rules of these orgs have their contact labels.
ConfigurationsBuilt ==
    /\ uids.pc = "setup"
    /\ DOMAIN amConfigPerOrg = OrgsWithChannels
    /\ \A o \in OrgsWithChannels :
          /\ Len(amConfigPerOrg[o].Route) = 1
          /\ Len(amConfigPerOrg[o].Route[1].Routes) = Len(ChannelSeqOfOrg(o))
          /\ ~validateAlertmanagerConfig(amConfigPerOrg[o], {}).isError
    /\ \A i \in 1..Len(rulesPerOrg) :
          LET ar == rulesPerOrg[i]
              channels == ChannelSeqOfOrg(ar.OrgID)
              receivers == createReceivers(channels, NoUids.s, NextShortUIDs(0), TRUE).receivers
              expected == filterReceiversForAlert(ar.channelUids, receivers,
                              defaultReceiversOf(SelectSeq(channels, LAMBDA c : c.IsDefault)))
          IN  /\ HasContactLabel(ar) <=> expected # {}
              /\ HasContactLabel(ar) => ar.Labels[ContactLabel] = contactListToString(expected)

\* Rules are inserted only when all configurations are built and validated, and
\* with their contact labels.
RulesInsertedAfterSetup ==
    alert_rule' # alert_rule =>
        /\ ConfigurationsBuilt
        /\ ~exec.err.isError
        /\ \A i \in 1..Len(alert_rule') :
              \E j \in 1..Len(rulesPerOrg) :
                  /\ rulesPerOrg[j].UID = alert_rule'[i].UID
                  /\ rulesPerOrg[j].Labels = alert_rule'[i].Labels

\* A configuration is written only when the rules of all orgs are inserted.
ConfigurationsWrittenAfterRules ==
    ua'.alert_configuration # ua.alert_configuration =>
        /\ Len(alert_rule) = Len(rulesPerOrg)
        /\ \A i \in 1..Len(rulesPerOrg) : \E j \in 1..Len(alert_rule) : alert_rule[j] = rulesPerOrg[i]
        /\ alert_rule' = alert_rule

\* The silences file of every org that has rules and silences is written with the
\* silences of the org, unless its write returned an error.
SilencesFilesWritten ==
    /\ DOMAIN exec.silencesFile =
          {o \in OrgIDs : /\ \E i \in 1..Len(rulesPerOrg) : rulesPerOrg[i].OrgID = o
                          /\ \E i \in 1..Len(silences) : silences[i].OrgID = o}
              \ exec.notWritten
    /\ \A o \in DOMAIN exec.silencesFile :
          /\ exec.silencesFile[o] # <<>>
          /\ \A k \in 1..Len(exec.silencesFile[o]) : exec.silencesFile[o][k].OrgID = o
          /\ \A i \in 1..Len(silences) :
                silences[i].OrgID = o =>
                    \E k \in 1..Len(exec.silencesFile[o]) : exec.silencesFile[o][k] = silences[i]

\* Rules are inserted only after the configurations are built, and a configuration
\* is written only after the rules are inserted; when inserting the rules fails no
\* configuration is written.
PersistsRulesThenConfigurations ==
    /\ [][RulesInsertedAfterSetup /\ ConfigurationsWrittenAfterRules]_vars
    /\ [](exec.err = PlainError("insertRules") => ua.alert_configuration = {})

\* C26 as it is stated: Exec persists in a fixed order: rules are inserted only after
\* the contact labels are attached and the configurations of all orgs are built and
\* validated, and a configuration is written only after the rules are inserted;
\* when building or validating a configuration fails nothing is persisted: no rule,
\* no configuration, no silences file and no folder; and when inserting the rules
\* fails no configuration is written.
C26_NothingPersistedWhenSetupFails ==
    /\ PersistsRulesThenConfigurations
    /\ [](SetupFailed =>
             /\ pc = "returned"
             /\ alert_rule = <<>>
             /\ ua.alert_configuration = {}
             /\ exec.silencesFile = <<>>
             /\ dashboard = dashboardsBefore)

\* C26: Exec persists in a fixed order: rules are inserted only after the contact
\* labels are attached and the configurations of all orgs are built and validated,
\* and a configuration is written only after the rules are inserted; when building
\* or validating a configuration fails no rule and no configuration is persisted,
\* while the folders created for the alerts and the silences files, written before
\* the configurations are built, stay; and when inserting the rules fails no
\* configuration is written.
C26_PersistsInOrder ==
    /\ PersistsRulesThenConfigurations
    /\ [](SetupFailed =>
             /\ pc = "returned"
             /\ alert_rule = <<>>
             /\ ua.alert_configuration = {}
             /\ SilencesFilesWritten)
    /\ [][ /\ exec'.silencesFile # exec.silencesFile =>
                 pc = "start" /\ uids'.pc = "setup" /\ alert_rule' = <<>>
           /\ uids'.pc = "setup" => dashboard' = dashboard
           /\ uids.pc = "setup" => exec'.silencesFile = exec.silencesFile ]_vars

\* setupAlertmanagerConfigs failed after a folder was created for an alert and the
\* silences file of the org of its rule was written: no rule and no configuration
\* is persisted, the folder and the file are there.
C26_Witness ==
    /\ SetupFailed
    /\ rulesPerOrg # <<>>
    /\ exec.silencesFile # <<>>
    /\ dashboard # dashboardsBefore
    /\ alert_rule = <<>>
    /\ ua.alert_configuration = {}

-----------------------------------------------------------------------------
(* Properties of the settings of a channel *)

\* The keys of the secure list of the type of the transcoded channel.
SecureKeys ==
    {secureKeysToMigrate(translated.chanType)[i] :
        i \in 1..Len(secureKeysToMigrate(translated.chanType))}

\* The secure settings of the channel hold a value under k that is not empty.
HeldSecurely(k) ==
    k \in DOMAIN translated.secureSettings /\ translated.secureSettings[k] # Encrypt("")

\* C27: a key of the secure list of the type is moved from the settings to the
\* secure settings only if the secure settings hold no value for it that is not
\* empty, and a value they hold is kept; the keys that are not listed stay in the
\* settings as they are; every value of the returned secure settings is encrypted;
\* and the settings object of the channel is as it was.
C27_SecureKeysAreMovedNotOverwritten ==
    (translated.pc = "settings" /\ ~translated.result.err) =>
        LET settings == translated.settings
            secureSettings == translated.secureSettings
            res == translated.result
        IN  /\ \A k \in SecureKeys :
                  IF HeldSecurely(k)
                  THEN /\ res.secureSettings[k] = EncodeToString(secureSettings[k])
                       /\ k \in DOMAIN settings =>
                             k \in DOMAIN res.settings /\ res.settings[k] = settings[k]
                  ELSE IF MustString(settings, k) # ""
                  THEN /\ res.secureSettings[k] = EncodeToString(Encrypt(settings[k].s))
                       /\ k \notin DOMAIN res.settings
                  ELSE /\ k \in DOMAIN res.secureSettings <=> k \in DOMAIN secureSettings
                       /\ k \in DOMAIN res.settings <=> k \in DOMAIN settings
            /\ \A k \in SettingsKeys \ SecureKeys :
                  /\ k \in DOMAIN res.settings <=> k \in DOMAIN settings
                  /\ k \in DOMAIN settings => res.settings[k] = settings[k]
                  /\ k \in DOMAIN res.secureSettings <=> k \in DOMAIN secureSettings
            /\ \A k \in DOMAIN res.secureSettings :
                  \E v \in {"", "p", "s"} : res.secureSettings[k] = EncodeToString(Encrypt(v))
            /\ res.channelSettings = settings

\* A slack channel has a url in its settings and another in its secure settings,
\* and a token in its settings only: the url stays where it is, the token is moved.
C27_Witness ==
    /\ translated.pc = "settings"
    /\ ~translated.result.err
    /\ translated.chanType = "slack"
    /\ translated.settings = [k \in {"url", "token", "recipient"} |-> JsonString("p")]
    /\ translated.secureSettings = [k \in {"url"} |-> Encrypt("s")]
    /\ translated.result.secureSettings =
          [k \in {"url", "token"} |->
              IF k = "url" THEN EncodeToString(Encrypt("s")) ELSE EncodeToString(Encrypt("p"))]
    /\ DOMAIN translated.result.settings = {"url", "recipient"}

\* C30: the settings returned for a channel whose type has a secure list hold no
\* value that is not empty under a key of that list, whatever the settings and the
\* secure settings of the channel hold.
C30_NoSecretStaysInTheSettings ==
    (translated.pc = "settings" /\ ~translated.result.err /\ SecureKeys # {}) =>
        \A k \in SecureKeys :
            k \in DOMAIN translated.result.settings =>
                translated.result.settings[k] = JsonString("")
=============================================================================
